---- MODULE Spec2Model ----
(***************************************************************************)
(* A model of mcp.core's access layer: the PolicyEngine (prioritised       *)
(* supplies, rate-limit counters, demand logging), the PlanRegistry, the   *)
(* AuditLogger (buffer, flush, outcome attachment) and the PlanRouter that *)
(* ties them together.                                                     *)
(*                                                                         *)
(* JavaScript runs each handler to its next await without interruption, so *)
(* one action is the code between two suspension points.  Strings are TLA+ *)
(* strings; an absent (undefined) optional string is the value Undefined,  *)
(* an absent optional list is the empty sequence (the code tests           *)
(* `list && list.length > 0`, so it cannot tell them apart).               *)
(***************************************************************************)
EXTENDS Integers, Sequences, FiniteSets, TLC

(***************************************************************************)
(* Bounds of the model.                                                    *)
(***************************************************************************)
MaxEvals == 3        \* evaluate invocations per behaviour of SpecPolicy
MaxTime == 2         \* the clock Date.now() runs over 0..MaxTime
MaxRules == 2        \* supplies the engine of SpecPolicy starts with
MaxMutations == 3    \* createSupply / removeSupply / reload invocations
MaxPending == 2      \* createSupply / removeSupply / reload calls in flight
MaxCalls == 2        \* PlanRouter.call invocations per behaviour of SpecRouter
MaxFlushes == 1      \* timer-driven flushes per behaviour

RequestIds == 1..MaxCalls

Undefined == "<undefined>"

\* !v for an optional string: undefined and "" are both falsy
Falsy(v) == v = Undefined \/ v = ""

(***************************************************************************)
(* Sequence helpers.                                                       *)
(***************************************************************************)
Range(s) == {s[i] : i \in 1..Len(s)}

\* Array.prototype.includes
Includes(list, v) == \E i \in 1..Len(list) : list[i] = v

\* String.prototype.startsWith / endsWith
StartsWith(value, prefix) ==
    /\ Len(prefix) <= Len(value)
    /\ SubSeq(value, 1, Len(prefix)) = prefix

EndsWith(value, suffix) ==
    /\ Len(suffix) <= Len(value)
    /\ SubSeq(value, Len(value) - Len(suffix) + 1, Len(value)) = suffix

(***************************************************************************)
(* Supplies (PolicySupply) and requests.                                   *)
(***************************************************************************)
NoRateLimit == [present |-> FALSE, maxRequests |-> 0, windowMs |-> 0, keyBy |-> "none"]

RateLimit(maxRequests, windowMs, keyBy) ==
    [present |-> TRUE, maxRequests |-> maxRequests, windowMs |-> windowMs, keyBy |-> keyBy]

Supply(id, name, priority, plans, methods, callerTypes, entryPoints, topics, action, rl) ==
    [id |-> id, name |-> name, priority |-> priority, plans |-> plans,
     methods |-> methods, allowedCallerTypes |-> callerTypes,
     allowedEntryPoints |-> entryPoints, allowedTopics |-> topics,
     action |-> action, rateLimit |-> rl]

\* The supplies createSupply is called with and policy storage can hold.
\* Three ids, two variants each, so that createSupply also replaces a rule;
\* two priority levels, so that ties occur.
SupplyPool ==
    { Supply("a", "ipc-user", 900, <<>>, <<>>, <<"user">>, <<"ipc">>, <<>>,
             "allow", NoRateLimit),
      Supply("a", "no-send", 500, <<"chat">>, <<"send*">>, <<>>, <<>>, <<>>,
             "deny", NoRateLimit),
      Supply("b", "remote-limit", 900, <<>>, <<>>, <<>>, <<"mcp-remote">>, <<>>,
             "rate-limit", RateLimit(2, 2, "caller")),
      Supply("b", "topic-audit", 500, <<"*">>, <<>>, <<>>, <<>>, <<"topic-42">>,
             "allow-with-audit", NoRateLimit),
      Supply("c", "read-messages", 500, <<"chat", "contacts">>, <<"*Messages">>,
             <<>>, <<>>, <<>>, "allow", NoRateLimit),
      Supply("c", "no-remote", 900, <<>>, <<>>, <<"remote">>, <<>>, <<>>,
             "deny", NoRateLimit) }

SupplyIds == {s.id : s \in SupplyPool}

\* What a caller asks: the RequestContext fields the engine reads, plus the
\* plan and the method.  requestId and timestamp are set per invocation.
Demand(callerId, callerType, entryPoint, topicId, plan, method) ==
    [callerId |-> callerId, callerType |-> callerType, entryPoint |-> entryPoint,
     topicId |-> topicId, plan |-> plan, method |-> method]

\* evaluate's callers ask these ...
DemandPool ==
    { Demand("alice", "user", "ipc", Undefined, "chat", "sendMessage"),
      Demand("peer", "remote", "mcp-remote", "topic-42", "chat", "getMessages"),
      Demand("peer", "remote", "mcp-remote", Undefined, "chat", "getMessages"),
      Demand("bot", "llm", "mcp-local", "topic-7", "contacts", "list") }

\* ... and the router's callers these: a registered method, an unknown
\* method and an unknown plan
CallPool ==
    { Demand("peer", "remote", "mcp-remote", "topic-42", "chat", "getMessages"),
      Demand("alice", "user", "ipc", Undefined, "chat", "purge"),
      Demand("alice", "user", "ipc", Undefined, "files", "read") }

NoDemand == Demand(Undefined, Undefined, Undefined, Undefined, Undefined, Undefined)

(***************************************************************************)
(* PolicyEngine: matching.                                                 *)
(***************************************************************************)
RECURSIVE matchesPatternFrom(_, _, _)
matchesPatternFrom(value, patterns, i) ==
    IF i > Len(patterns) THEN FALSE
    ELSE LET pattern == patterns[i] IN
         IF pattern = "*" THEN TRUE
         ELSE IF EndsWith(pattern, "*")
              THEN IF StartsWith(value, SubSeq(pattern, 1, Len(pattern) - 1))
                   THEN TRUE
                   ELSE matchesPatternFrom(value, patterns, i + 1)
         ELSE IF StartsWith(pattern, "*")
              THEN IF EndsWith(value, SubSeq(pattern, 2, Len(pattern)))
                   THEN TRUE
                   ELSE matchesPatternFrom(value, patterns, i + 1)
         ELSE IF pattern = value THEN TRUE
         ELSE matchesPatternFrom(value, patterns, i + 1)

matchesPattern(value, patterns) == matchesPatternFrom(value, patterns, 1)

\* a topic check that lets a context without a topic through
matchesTopicOrNone(context, supply) ==
    Len(supply.allowedTopics) > 0
       => \/ Falsy(context.topicId)
          \/ Includes(supply.allowedTopics, context.topicId)

\* the topic check: a supply that lists topics needs the context's topic in it
matchesTopic(context, supply) ==
    Len(supply.allowedTopics) > 0
       => /\ ~Falsy(context.topicId)
          /\ Includes(supply.allowedTopics, context.topicId)

matchesSupply(context, plan, method, supply) ==
    /\ Len(supply.allowedCallerTypes) > 0
          => Includes(supply.allowedCallerTypes, context.callerType)
    /\ Len(supply.allowedEntryPoints) > 0
          => Includes(supply.allowedEntryPoints, context.entryPoint)
    /\ Len(supply.plans) > 0 => matchesPattern(plan, supply.plans)
    /\ Len(supply.methods) > 0 => matchesPattern(method, supply.methods)
    /\ matchesTopic(context, supply)

(***************************************************************************)
(* PolicyEngine: rate limiting.  counters is the rateLimitCounters map, a  *)
(* function from the keys it holds to [count, resetAt].                    *)
(***************************************************************************)
\* one counter per rule, whatever its key dimension
rateLimitKeyPerRule(context, plan, method, supply) == supply.id

rateLimitKey(context, plan, method, supply) ==
    LET keyBy == supply.rateLimit.keyBy IN
    CASE keyBy = "caller" -> supply.id \o ":" \o context.callerId
      [] keyBy = "topic"  -> supply.id \o ":" \o
                               (IF Falsy(context.topicId) THEN "global"
                                ELSE context.topicId)
      [] keyBy = "method" -> supply.id \o ":" \o plan \o "." \o method
      [] keyBy = "plan"   -> supply.id \o ":" \o plan
      [] OTHER            -> supply.id

NoRateLimitInfo ==
    [present |-> FALSE, limited |-> FALSE, remaining |-> 0, resetAt |-> 0,
     retryAfter |-> 0]

\* a limit that is exceeded one request early
exceedsAtCap(count, maxRequests) == count >= maxRequests

\* counter.count > maxRequests
exceeds(count, maxRequests) == count > maxRequests

\* Returns the RateLimitInfo and the counters as the call leaves them.
checkRateLimit(counters, t, context, plan, method, supply) ==
    IF ~supply.rateLimit.present
    THEN [info |-> [present |-> TRUE, limited |-> FALSE, remaining |-> "Infinity",
                    resetAt |-> 0, retryAfter |-> 0],
          counters |-> counters]
    ELSE LET maxRequests == supply.rateLimit.maxRequests
             windowMs == supply.rateLimit.windowMs
             key == rateLimitKey(context, plan, method, supply)
             fresh == key \notin DOMAIN counters \/ counters[key].resetAt <= t
             start == IF fresh THEN [count |-> 0, resetAt |-> t + windowMs]
                      ELSE counters[key]
             counter == [start EXCEPT !.count = start.count + 1]
             after == [k \in DOMAIN counters \cup {key} |->
                          IF k = key THEN counter ELSE counters[k]]
         IN IF exceeds(counter.count, maxRequests)
            THEN [info |-> [present |-> TRUE, limited |-> TRUE, remaining |-> 0,
                            resetAt |-> counter.resetAt,
                            retryAfter |-> counter.resetAt - t],
                  counters |-> after]
            ELSE [info |-> [present |-> TRUE, limited |-> FALSE,
                            remaining |-> maxRequests - counter.count,
                            resetAt |-> counter.resetAt, retryAfter |-> 0],
                  counters |-> after]

(***************************************************************************)
(* PolicyEngine.evaluate, up to its await of logDemand: the loop over      *)
(* sortedSupplies.  A decision's absent `audit` is FALSE (the router only  *)
(* tests its truthiness), an absent `reason` is Undefined.                 *)
(***************************************************************************)
Decision(allowed, reason, audit, matchedRules, rateLimit) ==
    [allowed |-> allowed, reason |-> reason, audit |-> audit,
     matchedRules |-> matchedRules, rateLimit |-> rateLimit]

\* an engine that allows what no supply decided
defaultAllow(matchedSupplies) ==
    Decision(TRUE, Undefined, FALSE, matchedSupplies, NoRateLimitInfo)

\* the decision evaluate starts from and returns when no supply decided
defaultDecision(matchedSupplies) ==
    Decision(FALSE, "No matching supply", FALSE, matchedSupplies, NoRateLimitInfo)

\* `continue`: the loop goes on to the next supply
Continue == [continue |-> TRUE]

\* a rate-limit supply whose limit is not exceeded grants access
withinLimitGrants(supply, matched, info) ==
    Decision(TRUE, Undefined, FALSE, matched, NoRateLimitInfo)

\* a rate-limit supply whose limit is not exceeded decides nothing
withinLimit(supply, matched, info) == Continue

\* the switch on supply.action: the decision that ends the loop, or Continue
supplyDecision(supply, matched, info) ==
    CASE supply.action = "allow" ->
            Decision(TRUE, Undefined, FALSE, matched, NoRateLimitInfo)
      [] supply.action = "allow-with-audit" ->
            Decision(TRUE, Undefined, TRUE, matched, NoRateLimitInfo)
      [] supply.action = "deny" ->
            Decision(FALSE, "Denied by supply: " \o supply.name, FALSE, matched,
                     NoRateLimitInfo)
      [] supply.action = "rate-limit" ->
            IF info.limited
            THEN Decision(FALSE,
                          "Rate limited: retry after "
                             \o ToString(info.retryAfter) \o "ms",
                          FALSE, matched, info)
            ELSE withinLimit(supply, matched, info)

\* History: one call of checkRateLimit, with what it returned
RateLimitCheck(supply, key, info) ==
    [rule |-> supply.id, key |-> key,
     maxRequests |-> supply.rateLimit.maxRequests,
     windowMs |-> supply.rateLimit.windowMs,
     keyBy |-> supply.rateLimit.keyBy,
     limited |-> info.limited, remaining |-> info.remaining,
     retryAfter |-> info.retryAfter]

\* The result carries, besides the decision, the id logDemand is given, the
\* counters as the loop leaves them and the checks the loop made (history).
RECURSIVE evaluateFrom(_, _, _, _, _, _)
evaluateFrom(i, matchedSupplies, counters, sorted, t, d) ==
    IF i > Len(sorted)
    THEN [decision |-> defaultDecision(matchedSupplies),
          matchedSupplyId |-> Undefined,
          counters |-> counters, checks |-> <<>>]
    ELSE LET supply == sorted[i] IN
         IF ~matchesSupply(d, d.plan, d.method, supply)
         THEN evaluateFrom(i + 1, matchedSupplies, counters, sorted, t, d)
         ELSE LET matched == Append(matchedSupplies, supply.id)
                  isRateLimit == supply.action = "rate-limit"
                  rl == checkRateLimit(counters, t, d, d.plan, d.method, supply)
                  info == IF isRateLimit THEN rl.info ELSE NoRateLimitInfo
                  after == IF isRateLimit THEN rl.counters ELSE counters
                  checked ==
                      IF isRateLimit /\ supply.rateLimit.present
                      THEN <<RateLimitCheck(supply,
                                            rateLimitKey(d, d.plan, d.method, supply),
                                            rl.info)>>
                      ELSE <<>>
                  out == supplyDecision(supply, matched, info)
              IN IF "continue" \in DOMAIN out
                 THEN LET rest == evaluateFrom(i + 1, matched, after, sorted, t, d)
                      IN [rest EXCEPT !.checks = checked \o @]
                 ELSE [decision |-> out, matchedSupplyId |-> supply.id,
                       counters |-> after, checks |-> checked]

evaluate(sorted, counters, t, d) == evaluateFrom(1, <<>>, counters, sorted, t, d)

\* logDemand's PolicyDemandObject
DemandObject(requestId, timestamp, d, matchedSupplyId, decision) ==
    [id |-> requestId, callerId |-> d.callerId, callerType |-> d.callerType,
     entryPoint |-> d.entryPoint, plan |-> d.plan, method |-> d.method,
     topicId |-> d.topicId, timestamp |-> timestamp,
     matchedSupplyId |-> matchedSupplyId,
     decision |-> IF decision.allowed THEN "allowed" ELSE "denied",
     reason |-> decision.reason]

(***************************************************************************)
(* PolicyEngine: the rule map.  `supplies` is the Map in key order (a      *)
(* sequence of supplies with distinct ids): Map.set of a new key appends,  *)
(* Map.set of an existing key replaces the value where it stands.          *)
(***************************************************************************)
MapHas(map, id) == \E i \in 1..Len(map) : map[i].id = id

MapSet(map, supply) ==
    IF MapHas(map, supply.id)
    THEN [i \in 1..Len(map) |-> IF map[i].id = supply.id THEN supply ELSE map[i]]
    ELSE Append(map, supply)

MapDelete(map, id) == SelectSeq(map, LAMBDA s : s.id # id)

\* a sort that puts a supply before those of its own priority
RECURSIVE InsertBeforeEqual(_, _)
InsertBeforeEqual(sorted, supply) ==
    IF sorted = <<>> THEN <<supply>>
    ELSE IF Head(sorted).priority > supply.priority
         THEN <<Head(sorted)>> \o InsertBeforeEqual(Tail(sorted), supply)
         ELSE <<supply>> \o sorted

\* Array.prototype.sort((a, b) => b.priority - a.priority): stable, descending
RECURSIVE InsertByPriority(_, _)
InsertByPriority(sorted, supply) ==
    IF sorted = <<>> THEN <<supply>>
    ELSE IF Head(sorted).priority >= supply.priority
         THEN <<Head(sorted)>> \o InsertByPriority(Tail(sorted), supply)
         ELSE <<supply>> \o sorted

RECURSIVE SortByPriority(_)
SortByPriority(map) ==
    IF map = <<>> THEN <<>>
    ELSE InsertByPriority(SortByPriority(SubSeq(map, 1, Len(map) - 1)),
                          map[Len(map)])


(***************************************************************************)
(* PlanRegistry: the registered plans and their callable methods.          *)
(***************************************************************************)
RegisteredPlans == {"chat"}

PlanMethods(planName) ==
    IF planName = "chat" THEN {"sendMessage", "getMessages"} ELSE {}

\* callPlanMethod's own throws; "" when the method is found and called
callPlanMethodError(planName, methodName) ==
    IF planName \notin RegisteredPlans THEN "Plan not found: " \o planName
    ELSE IF methodName \notin PlanMethods(planName)
         THEN "Method not found: " \o planName \o "." \o methodName
    ELSE ""

(***************************************************************************)
(* AuditLogger values.                                                     *)
(***************************************************************************)
BUFFER_SIZE == 2     \* stands for the code's 100: the length that starts a flush

\* JSON.stringify of an array of strings
RECURSIVE JsonItems(_)
JsonItems(list) ==
    IF list = <<>> THEN ""
    ELSE "\"" \o Head(list) \o "\""
            \o (IF Len(list) > 1 THEN "," ELSE "") \o JsonItems(Tail(list))

JsonStringify(list) == "[" \o JsonItems(list) \o "]"

\* logRequest's AuditEntryObject.  hasResult says that success and
\* executionTimeMs are set (they are undefined until logResult sets them).
AuditEntry(requestId, timestamp, d, decision, matchedRules, denyReason) ==
    [id |-> requestId, timestamp |-> timestamp, requestId |-> requestId,
     callerId |-> d.callerId, callerType |-> d.callerType,
     entryPoint |-> d.entryPoint, plan |-> d.plan, method |-> d.method,
     topicId |-> d.topicId, decision |-> decision, denyReason |-> denyReason,
     matchedRules |-> JsonStringify(matchedRules),
     hasResult |-> FALSE, success |-> FALSE, executionTimeMs |-> 0,
     error |-> Undefined]

\* logResult: the first buffered entry with that id gets the outcome
RECURSIVE FindIndex(_, _, _)
FindIndex(buf, requestId, i) ==
    IF i > Len(buf) THEN 0
    ELSE IF buf[i].id = requestId THEN i
    ELSE FindIndex(buf, requestId, i + 1)

\* a logResult that records the outcome in an entry of its own when the
\* request's entry is not buffered
logResultAppends(buf, requestId, success, executionTimeMs, error) ==
    LET i == FindIndex(buf, requestId, 1) IN
    IF i = 0
    THEN Append(buf, [id |-> requestId, timestamp |-> 0, requestId |-> requestId,
                      callerId |-> Undefined, callerType |-> Undefined,
                      entryPoint |-> Undefined, plan |-> Undefined,
                      method |-> Undefined, topicId |-> Undefined,
                      decision |-> Undefined, denyReason |-> Undefined,
                      matchedRules |-> Undefined, hasResult |-> TRUE,
                      success |-> success, executionTimeMs |-> executionTimeMs,
                      error |-> error])
    ELSE [buf EXCEPT ![i] = [@ EXCEPT !.hasResult = TRUE, !.success = success,
                                      !.executionTimeMs = executionTimeMs,
                                      !.error = error]]

logResult(buf, requestId, success, executionTimeMs, error) ==
    LET i == FindIndex(buf, requestId, 1) IN
    IF i = 0 THEN buf
    ELSE [buf EXCEPT ![i] = [@ EXCEPT !.hasResult = TRUE, !.success = success,
                                      !.executionTimeMs = executionTimeMs,
                                      !.error = error]]

(***************************************************************************)
(* State.                                                                  *)
(***************************************************************************)
VARIABLES
    \* PolicyEngine
    supplies,           \* the Map id -> supply, in key order
    sortedSupplies,     \* the evaluation order
    rateLimitCounters,  \* key -> [count, resetAt]
    \* policy storage (collaborator) and the engine's calls in flight
    policyStorage,      \* the stored supplies, one per id
    pendingOps,         \* createSupply / removeSupply / loadSupplies awaiting storage
    mutations,          \* how many of those were invoked
    insertedAt,         \* id -> when its key entered the rule map, 0 if absent (history)
    inserts,            \* createSupply completions and loaded rules so far (history)
    now,                \* Date.now()
    \* per request: PolicyEngine.evaluate and PlanRouter.call
    pc,                 \* where the invocation stands
    demand,             \* the context, plan and method it was invoked with
    ctxTime,            \* context.timestamp
    startTime,          \* the router's startTime
    decision,           \* the decision the evaluation loop reached
    handed,             \* the demand objects passed to storeDemand
    stored,             \* whether storeDemand stored the object
    evaluated,          \* what evaluate returned
    executions,         \* how often callPlanMethod began for the request
    raised,             \* the error callPlanMethod raised, if it did (history)
    outcome,            \* how call settled
    evaluations,        \* evaluate invocations so far
    rlLog,              \* rate-limit checks made, in order (history)
    \* AuditLogger
    buffer,             \* the write buffer
    flushing,           \* the batches of the flushes in progress
    auditStorage,       \* the entries storeEntry stored, in order
    flushTimer,         \* whether the periodic timer is armed
    flushes,            \* timer-driven flushes so far
    \* AuditLogger: logRequest called directly, query and shutdown
    logged,             \* entries passed to logRequest directly so far
    opPc,               \* where query and shutdown stand
    opBatch,            \* the entries their awaited flush still has to store
    loggedAtCall,       \* the ids logged before each was invoked (history)
    queryFilter,        \* the filter query was invoked with
    queryResult,        \* what queryEntries returned
    storeFailed,        \* whether a storeEntry call has failed (history)
    \* MCPSupplyManager (provider)
    mcpSupplies,        \* the Map topicId -> MCPSupply
    pendingSupplies,    \* createSupply calls awaiting storeVersionedObject
    managerCalls,       \* createSupply / removeSupply / revokeCredential calls
                        \* so far
    issuedCredentials,  \* topicId -> the consumers holding a credential
    credentialStore,    \* (topic, consumer) -> the versions of its credential
                        \* storeVersionedObject has stored
    sentCredentials,    \* consumer -> sendCredential calls so far (history)
    channel,            \* consumer -> the credentials sent and not yet received
    hd,                 \* the handleDemand invocations
    issuedSince,        \* (topic, consumer) -> credentials stored since its last
                        \* revocation (history)
    \* MCPDemandManager / MCPCredentialCache (one per consumer)
    credentialCache,    \* consumer -> (topicId, provider) -> credential
    received,           \* credentials received outside the channel so far
    lastLookup,         \* the last hasAccess / isToolAllowed call and its answer
    \* MCPRemoteClient
    toolCalls,          \* the callTool invocations
    responsePromise,    \* call -> the state of its response promise
    pendingRequests,    \* the keys of the Map of pending requests
    timers,             \* the calls whose timeout is set
    storedToolCalls,    \* the MCPToolCall objects stored
    sentRequests,       \* the MCPRequest messages handed to sendMessage
    fetching,           \* the handleResponse invocations awaiting getObject
    warned,             \* the response last dropped with a warning, 0 if none
    fired,              \* the calls whose timeout has fired (history)
    settles,            \* call -> resolve / reject calls on its response
                        \* promise so far (history)
    \* PolicyEngine
    reloadFailed,       \* whether the latest reload failed and was logged
    \* IPCAdapter, MCPLocalAdapter, MCPRemoteAdapter
    adapterCalls,       \* the handle / handleRequest invocations
    \* MCPRemoteHandler
    handlerCalls        \* the handleRequest invocations

policyVars == <<supplies, sortedSupplies, rateLimitCounters>>
storageVars == <<policyStorage, pendingOps, mutations, insertedAt, inserts>>
requestVars == <<pc, demand, ctxTime, startTime, decision, handed, stored,
                 evaluated, executions, raised, outcome, evaluations, rlLog>>
auditVars == <<buffer, flushing, auditStorage, flushTimer, flushes>>
loggerOpVars == <<logged, opPc, opBatch, loggedAtCall, queryFilter, queryResult>>
loggerVars == <<loggerOpVars, storeFailed>>
providerVars == <<mcpSupplies, pendingSupplies, managerCalls,
                  issuedCredentials, credentialStore, sentCredentials, channel,
                  hd, issuedSince>>
consumerVars == <<credentialCache, received, lastLookup>>
routerVars == <<policyVars, storageVars, now, requestVars, auditVars, loggerVars,
                reloadFailed, adapterCalls>>
coreVars == <<routerVars, handlerCalls>>
clientVars == <<toolCalls, responsePromise, pendingRequests, timers,
                storedToolCalls, sentRequests, fetching, warned, fired, settles>>
peerVars == <<providerVars, consumerVars, clientVars, handlerCalls>>
outerVars == <<peerVars, reloadFailed, adapterCalls>>
extVars == <<loggerVars, outerVars>>
vars == <<policyVars, storageVars, now, requestVars, auditVars, extVars>>

\* the AuditLogger operations that await a flush
AuditOps == {"query", "shutdown"}

NoDecision == Decision(FALSE, Undefined, FALSE, <<>>, NoRateLimitInfo)

Outcome(kind, success, error, dec) ==
    [kind |-> kind, success |-> success, error |-> error, decision |-> dec]

NoOutcome == Outcome("none", FALSE, Undefined, NoDecision)


(***************************************************************************)
(* Policy storage (collaborator).  storeSupply keeps one object per id;    *)
(* loadSupplies returns the stored objects in an order the interface does  *)
(* not fix.                                                                *)
(***************************************************************************)
StoreSupplyObject(storage, supply) ==
    {s \in storage : s.id # supply.id} \cup {supply}

DeleteSupplyObject(storage, id) == {s \in storage : s.id # id}

RECURSIVE Orderings(_)
Orderings(S) ==
    IF S = {} THEN {<<>>}
    ELSE UNION {{<<x>> \o rest : rest \in Orderings(S \ {x})} : x \in S}

RemoveAt(seq, i) == SubSeq(seq, 1, i - 1) \o SubSeq(seq, i + 1, Len(seq))

PendingOp(op, supply, id, loaded) ==
    [op |-> op, supply |-> supply, id |-> id, loaded |-> loaded]

NoSupply ==
    Supply(Undefined, Undefined, 0, <<>>, <<>>, <<>>, <<>>, <<>>, Undefined, NoRateLimit)

CanInvoke == mutations < MaxMutations /\ Len(pendingOps) < MaxPending

(***************************************************************************)
(* PolicyEngine.createSupply: storeSupply is called, and awaited.          *)
(***************************************************************************)
CreateSupplyCall(supply) ==
    /\ CanInvoke
    /\ policyStorage' = StoreSupplyObject(policyStorage, supply)
    /\ pendingOps' = Append(pendingOps, PendingOp("create", supply, supply.id, <<>>))
    /\ mutations' = mutations + 1
    /\ UNCHANGED <<extVars, policyVars, insertedAt, inserts, now, requestVars, auditVars>>

\* ... and once it has resolved, the rule is set and the order rebuilt.
CreateSupplyDone(i) ==
    /\ i \in 1..Len(pendingOps)
    /\ pendingOps[i].op = "create"
    /\ LET supply == pendingOps[i].supply IN
       /\ supplies' = MapSet(supplies, supply)
       /\ sortedSupplies' = SortByPriority(supplies')
       /\ inserts' = inserts + 1
       /\ insertedAt' = [insertedAt EXCEPT ![supply.id] =
                            IF insertedAt[supply.id] > 0 THEN @ ELSE inserts']
    /\ pendingOps' = RemoveAt(pendingOps, i)
    /\ UNCHANGED <<extVars, rateLimitCounters, policyStorage, mutations, now, requestVars,
                   auditVars>>

(***************************************************************************)
(* PolicyEngine.removeSupply.                                              *)
(***************************************************************************)
RemoveSupplyCall(id) ==
    /\ CanInvoke
    /\ policyStorage' = DeleteSupplyObject(policyStorage, id)
    /\ pendingOps' = Append(pendingOps, PendingOp("remove", NoSupply, id, <<>>))
    /\ mutations' = mutations + 1
    /\ UNCHANGED <<extVars, policyVars, insertedAt, inserts, now, requestVars, auditVars>>

RemoveSupplyDone(i) ==
    /\ i \in 1..Len(pendingOps)
    /\ pendingOps[i].op = "remove"
    /\ supplies' = MapDelete(supplies, pendingOps[i].id)
    /\ sortedSupplies' = SortByPriority(supplies')
    /\ insertedAt' = [insertedAt EXCEPT ![pendingOps[i].id] = 0]
    /\ pendingOps' = RemoveAt(pendingOps, i)
    /\ UNCHANGED <<extVars, rateLimitCounters, policyStorage, mutations, inserts, now,
                   requestVars, auditVars>>

(***************************************************************************)
(* PolicyEngine.loadSupplies, run by the onSuppliesChanged callback: the   *)
(* storage read is awaited, then the map is cleared and rebuilt.           *)
(***************************************************************************)
ReloadCall ==
    /\ CanInvoke
    /\ \E loaded \in Orderings(policyStorage) :
          pendingOps' = Append(pendingOps, PendingOp("reload", NoSupply, Undefined, loaded))
    /\ mutations' = mutations + 1
    /\ UNCHANGED <<extVars, policyVars, policyStorage, insertedAt, inserts, now, requestVars,
                   auditVars>>

RECURSIVE MapSetAll(_, _)
MapSetAll(map, objs) ==
    IF objs = <<>> THEN map ELSE MapSetAll(MapSet(map, Head(objs)), Tail(objs))

EnteredByLoad(loaded, base) ==
    [id \in SupplyIds |->
        IF \E k \in 1..Len(loaded) : loaded[k].id = id
        THEN base + (CHOOSE k \in 1..Len(loaded) : loaded[k].id = id)
        ELSE 0]

ReloadDone(i) ==
    /\ i \in 1..Len(pendingOps)
    /\ pendingOps[i].op = "reload"
    /\ LET loaded == pendingOps[i].loaded IN
       /\ supplies' = MapSetAll(<<>>, loaded)
       /\ sortedSupplies' = SortByPriority(supplies')
       /\ inserts' = inserts + Len(loaded)
       /\ insertedAt' = EnteredByLoad(loaded, inserts)
    /\ pendingOps' = RemoveAt(pendingOps, i)
    /\ reloadFailed' = FALSE
    /\ UNCHANGED <<loggerVars, peerVars, adapterCalls,
                   rateLimitCounters, policyStorage, mutations, now,
                   requestVars, auditVars>>

\* deps.loadSupplies rejects: the callback's catch logs it and nothing after
\* the await runs (reloadFailed: how the latest reload ended)
ReloadFailClears(i) ==
    /\ i \in 1..Len(pendingOps)
    /\ pendingOps[i].op = "reload"
    /\ pendingOps' = RemoveAt(pendingOps, i)
    /\ reloadFailed' = TRUE
    /\ supplies' = <<>>
    /\ sortedSupplies' = <<>>
    /\ UNCHANGED <<loggerVars, peerVars, adapterCalls,
                   rateLimitCounters, policyStorage,
                   mutations, insertedAt, inserts, now, requestVars, auditVars>>

ReloadFail(i) ==
    /\ i \in 1..Len(pendingOps)
    /\ pendingOps[i].op = "reload"
    /\ pendingOps' = RemoveAt(pendingOps, i)
    /\ reloadFailed' = TRUE
    /\ UNCHANGED <<loggerVars, peerVars, adapterCalls,
                   policyVars, policyStorage, mutations,
                   insertedAt, inserts, now, requestVars, auditVars>>

\* a clock whose tick sweeps the counters: every expired window is reset
TickSweeps ==
    /\ now < MaxTime
    /\ now' = now + 1
    /\ rateLimitCounters' =
           [k \in DOMAIN rateLimitCounters |->
               IF rateLimitCounters[k].resetAt <= now'
               THEN [rateLimitCounters[k] EXCEPT !.count = 0]
               ELSE rateLimitCounters[k]]
    /\ UNCHANGED <<extVars, supplies, sortedSupplies, storageVars, requestVars,
                   auditVars>>

Tick ==
    /\ now < MaxTime
    /\ now' = now + 1
    /\ UNCHANGED <<extVars, policyVars, storageVars, requestVars, auditVars>>


(***************************************************************************)
(* PolicyEngine.evaluate.  The loop runs without suspension; logDemand     *)
(* then calls storeDemand and awaits it.                                   *)
(***************************************************************************)
SupplyById(sorted, id) == sorted[CHOOSE i \in 1..Len(sorted) : sorted[i].id = id]

\* History: the checks of one evaluation, with when it ran and how it ended
RateLimitChecks(checks, t, n, res, d) ==
    [k \in 1..Len(checks) |->
        [time |-> t, evaluation |-> n, rule |-> checks[k].rule,
         key |-> checks[k].key, maxRequests |-> checks[k].maxRequests,
         windowMs |-> checks[k].windowMs, keyBy |-> checks[k].keyBy,
         limited |-> checks[k].limited, remaining |-> checks[k].remaining,
         retryAfter |-> checks[k].retryAfter, request |-> d,
         allowed |-> res.decision.allowed, decidedBy |-> res.matchedSupplyId]]

\* logDemand: the objects it passes to storeDemand
logDemand(requestId, timestamp, d, matchedSupplyId, dec) ==
    <<DemandObject(requestId, timestamp, d, matchedSupplyId, dec)>>

Invoke(r, d) ==
    /\ LET res == evaluate(sortedSupplies, rateLimitCounters, now, d) IN
       /\ rateLimitCounters' = res.counters
       /\ decision' = [decision EXCEPT ![r] = res.decision]
       /\ handed' = [handed EXCEPT ![r] =
                        logDemand(r, now, d, res.matchedSupplyId, res.decision)]
       /\ rlLog' = rlLog \o RateLimitChecks(res.checks, now, evaluations + 1, res, d)
    /\ demand' = [demand EXCEPT ![r] = d]
    /\ ctxTime' = [ctxTime EXCEPT ![r] = now]
    /\ stored' = [stored EXCEPT ![r] = "pending"]
    /\ evaluations' = evaluations + 1
    /\ pc' = [pc EXCEPT ![r] = "logDemand"]
    /\ UNCHANGED <<loggerVars, peerVars, reloadFailed, supplies, sortedSupplies,
                   storageVars, now, evaluated,
                   executions, raised, outcome, auditVars>>

\* evaluate called directly, by a client that awaits each result before
\* its next call
EvaluateCall(d) ==
    /\ pc[1] \in {"idle", "evaluated"}
    /\ evaluations < MaxEvals
    /\ Invoke(1, d)
    /\ UNCHANGED <<startTime, adapterCalls>>

\* storeDemand resolves: logDemand returns and evaluate returns the decision
StoreDemandOk(r) ==
    /\ pc[r] = "logDemand"
    /\ stored' = [stored EXCEPT ![r] = "stored"]
    /\ evaluated' = [evaluated EXCEPT ![r] = decision[r]]
    /\ pc' = [pc EXCEPT ![r] = "evaluated"]
    /\ UNCHANGED <<extVars, policyVars, storageVars, now, demand, ctxTime, startTime, decision,
                   handed, executions, raised, outcome, evaluations, rlLog, auditVars>>

\* a logDemand without the catch: the rejection leaves evaluate
StoreDemandFailThrows(r) ==
    /\ pc[r] = "logDemand"
    /\ stored' = [stored EXCEPT ![r] = "failed"]
    /\ pc' = [pc EXCEPT ![r] = "threw"]
    /\ UNCHANGED <<extVars, policyVars, storageVars, now, demand, ctxTime, startTime, decision,
                   handed, evaluated, executions, raised, outcome, evaluations, rlLog,
                   auditVars>>

\* storeDemand rejects: logDemand's catch logs it, evaluate returns the decision
StoreDemandFail(r) ==
    /\ pc[r] = "logDemand"
    /\ stored' = [stored EXCEPT ![r] = "failed"]
    /\ evaluated' = [evaluated EXCEPT ![r] = decision[r]]
    /\ pc' = [pc EXCEPT ![r] = "evaluated"]
    /\ UNCHANGED <<extVars, policyVars, storageVars, now, demand, ctxTime, startTime, decision,
                   handed, executions, raised, outcome, evaluations, rlLog, auditVars>>

(***************************************************************************)
(* AuditLogger.flush: the buffer is spliced into a batch whose entries are *)
(* stored one await at a time; an entry whose store fails is unshifted     *)
(* back into the buffer.                                                   *)
(***************************************************************************)
flushBuffer(buf) == <<>>

flushBatches(buf, batches) == IF buf = <<>> THEN batches ELSE Append(batches, buf)

NextBatch(batches, b) ==
    IF Len(batches[b]) = 1 THEN RemoveAt(batches, b)
    ELSE [batches EXCEPT ![b] = Tail(@)]

StoreEntryOk(b) ==
    /\ b \in 1..Len(flushing)
    /\ auditStorage' = Append(auditStorage, Head(flushing[b]))
    /\ flushing' = NextBatch(flushing, b)
    /\ UNCHANGED <<extVars, policyVars, storageVars, now, requestVars, buffer, flushTimer,
                   flushes>>

\* a flush that drops the entry it could not store
requeueDropped(buf, entry) == buf

\* this.buffer.unshift(entry)
requeue(buf, entry) == <<entry>> \o buf

StoreEntryFail(b) ==
    /\ b \in 1..Len(flushing)
    /\ buffer' = requeue(buffer, Head(flushing[b]))
    /\ flushing' = NextBatch(flushing, b)
    /\ storeFailed' = TRUE
    /\ UNCHANGED <<outerVars, loggerOpVars, policyVars, storageVars, now, requestVars,
                   auditStorage, flushTimer, flushes>>

\* scheduleFlush's timer fires: flush, and schedule the next
TimerFlush ==
    /\ flushTimer
    /\ flushes < MaxFlushes
    /\ flushes' = flushes + 1
    /\ buffer' = flushBuffer(buffer)
    /\ flushing' = flushBatches(buffer, flushing)
    /\ UNCHANGED <<extVars, policyVars, storageVars, now, requestVars, auditStorage,
                   flushTimer>>

(***************************************************************************)
(* AuditLogger called directly: logRequest, query and shutdown.  query and *)
(* shutdown await their own flush, whose entries are kept in opBatch; the  *)
(* flushes of the timer and of logRequest run unawaited, in `flushing`.    *)
(* flush returns at once when the buffer is empty.                         *)
(***************************************************************************)
MaxEntries == 2

LoggedDemand == Demand("peer", "remote", "mcp-remote", "topic-42", "chat", "getMessages")

\* AuditFilter: by decision, or none
AuditFilters == {Undefined, "allowed", "denied"}

\* the storage collaborator's queryEntries
queryEntries(storage, filter) ==
    SelectSeq(storage, LAMBDA e : filter = Undefined \/ e.decision = filter)

\* the ids of the entries passed to logRequest so far
LoggedIds == 1..logged

\* logRequest: push, and flush when the buffer is full
LogRequest(dec) ==
    /\ logged < MaxEntries
    /\ logged' = logged + 1
    /\ LET entry == AuditEntry(logged', now, LoggedDemand, dec, <<>>, Undefined)
           pushed == Append(buffer, entry)
           full == Len(pushed) >= BUFFER_SIZE
       IN /\ buffer' = IF full THEN flushBuffer(pushed) ELSE pushed
          /\ flushing' = IF full THEN flushBatches(pushed, flushing) ELSE flushing
    /\ UNCHANGED <<outerVars, opPc, opBatch, loggedAtCall, queryFilter, queryResult, storeFailed,
                   policyVars, storageVars, now, requestVars, auditStorage,
                   flushTimer, flushes>>

\* where an operation stands once its awaited flush has returned
afterFlush(op) == IF op = "query" THEN "reading" ELSE "done"

\* the awaited flush of an operation begins: the buffer is spliced into its batch
awaitFlush(op) ==
    /\ opPc[op] = "idle"
    /\ loggedAtCall' = [loggedAtCall EXCEPT ![op] = LoggedIds]
    /\ opBatch' = [opBatch EXCEPT ![op] = buffer]
    /\ buffer' = flushBuffer(buffer)
    /\ opPc' = [opPc EXCEPT ![op] = IF buffer = <<>> THEN afterFlush(op)
                                     ELSE "flushing"]

\* query: flush, awaited; queryEntries is called when the flush has returned
QueryCall(filter) ==
    /\ awaitFlush("query")
    /\ queryFilter' = filter
    /\ UNCHANGED <<outerVars, logged, queryResult, storeFailed, policyVars, storageVars, now,
                   requestVars, flushing, auditStorage, flushTimer, flushes>>

\* queryEntries reads the storage and query returns what it read
QueryRead ==
    /\ opPc["query"] = "reading"
    /\ queryResult' = queryEntries(auditStorage, queryFilter)
    /\ opPc' = [opPc EXCEPT !["query"] = "done"]
    /\ UNCHANGED <<outerVars, logged, opBatch, loggedAtCall, queryFilter, storeFailed,
                   policyVars, storageVars, now, requestVars, auditVars>>

\* shutdown: the timer is cleared, then flush, awaited
ShutdownCall ==
    /\ awaitFlush("shutdown")
    /\ flushTimer' = FALSE
    /\ UNCHANGED <<outerVars, logged, queryFilter, queryResult, storeFailed, policyVars,
                   storageVars, now, requestVars, flushing, auditStorage, flushes>>

\* storeEntry of an awaited flush resolves; after the last entry flush returns
OpStoreEntryOk(op) ==
    /\ opPc[op] = "flushing"
    /\ auditStorage' = Append(auditStorage, Head(opBatch[op]))
    /\ opBatch' = [opBatch EXCEPT ![op] = Tail(@)]
    /\ opPc' = [opPc EXCEPT ![op] = IF Len(opBatch[op]) = 1 THEN afterFlush(op) ELSE @]
    /\ UNCHANGED <<outerVars, logged, loggedAtCall, queryFilter, queryResult, storeFailed,
                   policyVars, storageVars, now, requestVars, buffer, flushing,
                   flushTimer, flushes>>

\* storeEntry of an awaited flush rejects: the entry is put back
OpStoreEntryFail(op) ==
    /\ opPc[op] = "flushing"
    /\ buffer' = requeue(buffer, Head(opBatch[op]))
    /\ opBatch' = [opBatch EXCEPT ![op] = Tail(@)]
    /\ opPc' = [opPc EXCEPT ![op] = IF Len(opBatch[op]) = 1 THEN afterFlush(op) ELSE @]
    /\ storeFailed' = TRUE
    /\ UNCHANGED <<outerVars, logged, loggedAtCall, queryFilter, queryResult, policyVars,
                   storageVars, now, requestVars, flushing, auditStorage, flushTimer,
                   flushes>>

(***************************************************************************)
(* PlanRouter.call.                                                        *)
(***************************************************************************)
\* call up to its await of evaluate's logDemand
RouterEnter(r, d) ==
    /\ Invoke(r, d)
    /\ startTime' = [startTime EXCEPT ![r] = now]

\* call invoked directly, the requests numbered in the order of their calls
RouterCall(r, d) ==
    /\ pc[r] = "idle"
    /\ \A q \in RequestIds : q < r => pc[q] # "idle"
    /\ RouterEnter(r, d)
    /\ UNCHANGED adapterCalls

\* new PolicyDeniedError(decision), thrown
PolicyDeniedError(dec) ==
    Outcome("PolicyDeniedError", FALSE,
            IF Falsy(dec.reason) THEN "Policy denied" ELSE dec.reason, dec)

\* a router that logs only denials before execution
logsDenialsOnly(dec) == ~dec.allowed

\* step 2: which requests are logged before execution
logsRequest(dec) == dec.audit \/ ~dec.allowed

\* a router that lets a denial through to the registry
rejectsNothing(dec) == FALSE

\* step 3: which requests are rejected
rejects(dec) == ~dec.allowed

\* evaluate has returned: log the request, reject a denial, else call the
\* registry, whose callPlanMethod runs up to the plan method's first await
RouterProceed(r) ==
    /\ pc[r] = "evaluated"
    /\ LET dec == evaluated[r]
           entry == AuditEntry(r, ctxTime[r], demand[r],
                               IF dec.allowed THEN "allowed" ELSE "denied",
                               dec.matchedRules, dec.reason)
           pushed == IF logsRequest(dec) THEN Append(buffer, entry) ELSE buffer
           full == logsRequest(dec) /\ Len(pushed) >= BUFFER_SIZE
       IN /\ buffer' = IF full THEN flushBuffer(pushed) ELSE pushed
          /\ flushing' = IF full THEN flushBatches(pushed, flushing) ELSE flushing
          /\ IF rejects(dec)
             THEN /\ outcome' = [outcome EXCEPT ![r] = PolicyDeniedError(dec)]
                  /\ pc' = [pc EXCEPT ![r] = "rejected"]
                  /\ UNCHANGED executions
             ELSE /\ executions' = [executions EXCEPT ![r] = @ + 1]
                  /\ pc' = [pc EXCEPT ![r] = "executing"]
                  /\ UNCHANGED outcome
    /\ UNCHANGED <<extVars, policyVars, storageVars, now, demand, ctxTime, startTime, decision,
                   handed, stored, evaluated, raised, evaluations, rlLog,
                   auditStorage, flushTimer, flushes>>

\* the try block's return, and the catch block's
executionResult(dec) == Outcome("result", TRUE, Undefined, dec)

\* a catch block that throws the error on
executionRethrown(errorMessage, dec) == Outcome("Error", FALSE, errorMessage, dec)

executionFailure(errorMessage, dec) == Outcome("result", FALSE, errorMessage, dec)

\* callPlanMethod has settled: attach the outcome when audited, and settle
RouterSettle(r, settled) ==
    /\ pc[r] = "executing"
    /\ buffer' = IF evaluated[r].audit
                 THEN logResult(buffer, r, settled.success, now - startTime[r],
                                settled.error)
                 ELSE buffer
    /\ outcome' = [outcome EXCEPT ![r] = settled]
    /\ pc' = [pc EXCEPT ![r] = IF settled.kind = "result" THEN "returned"
                               ELSE "rejected"]
    /\ UNCHANGED <<extVars, policyVars, storageVars, now, demand, ctxTime, startTime, decision,
                   handed, stored, evaluated, executions, evaluations, rlLog,
                   flushing, auditStorage, flushTimer, flushes>>

\* the plan method resolved
ExecuteOk(r) ==
    /\ pc[r] = "executing"
    /\ callPlanMethodError(demand[r].plan, demand[r].method) = ""
    /\ RouterSettle(r, executionResult(evaluated[r]))
    /\ UNCHANGED raised

\* callPlanMethod threw (plan or method not found), or the plan method did
ExecuteThrow(r) ==
    /\ pc[r] = "executing"
    /\ LET err == callPlanMethodError(demand[r].plan, demand[r].method)
           errorMessage == IF err = "" THEN "plan method failed" ELSE err
       IN /\ RouterSettle(r, executionFailure(errorMessage, evaluated[r]))
          /\ raised' = [raised EXCEPT ![r] = errorMessage]

(***************************************************************************)
(* Credentials: MCPSupplyManager on the provider, MCPDemandManager and its *)
(* MCPCredentialCache on each consumer.  The provider is "me"; credentials *)
(* of the provider "other" reach a consumer from outside the model.  The   *)
(* messaging transport delivers the credentials sent to a consumer in any  *)
(* order.  An absent allowedTools is the list AbsentTools, which differs   *)
(* from the empty list and from every list of tool names; an absent        *)
(* revokedAt is 0 (the code tests its truthiness).                         *)
(***************************************************************************)
MaxDemands == 2      \* handleDemand invocations per behaviour
MaxManagerCalls == 1 \* MCPSupplyManager createSupply / removeSupply /
                     \* revokeCredential calls per behaviour
MaxReceived == 2     \* receiveCredential calls per behaviour of SpecCache

Scopes == {"topic-42", "topic-7"}
Consumers == {"peer"}
myPersonId == "me"
Providers == {myPersonId, "other"}
ToolNames == {"search", "write"}
\* allowedTools?: string[] left out
AbsentTools == <<Undefined>>

AllowedTools == {AbsentTools, <<>>, <<"search">>}
DemandIds == 1..MaxDemands

\* Date.now(): the model's clock starts at 0, a wall clock is positive
DateNow == now + 1

MCPSupply(topicId, allowedTools) ==
    [topicId |-> topicId, allowedTools |-> allowedTools]

NoMCPSupply == MCPSupply(Undefined, AbsentTools)

MCPCredential(topicId, provider, consumer, allowedTools, issuedAt, revokedAt) ==
    [topicId |-> topicId, providerPersonId |-> provider,
     consumerPersonId |-> consumer, allowedTools |-> allowedTools,
     issuedAt |-> issuedAt, revokedAt |-> revokedAt]

NoCredential == MCPCredential(Undefined, Undefined, Undefined, AbsentTools, 0, 0)

hasSupplyAlways(map, topicId) == TRUE

\* MCPSupplyManager.hasSupply, and the lookup handleDemand starts with
hasSupply(map, topicId) == map[topicId] # NoMCPSupply

neverIssued(issued, topicId, consumer) == FALSE

\* handleDemand: "already issued credential to this consumer?"
alreadyIssued(issued, topicId, consumer) == consumer \in issued[topicId]

\* MCPSupplyManager.hasValidCredential
hasValidCredential(issued, topicId, consumer) == consumer \in issued[topicId]

revokeKeeps(issued, topicId, consumer) == issued

\* revokeCredential: remove the consumer from the topic's issued set
revokeIssued(issued, topicId, consumer) ==
    [issued EXCEPT ![topicId] = @ \ {consumer}]

\* the credential handleDemand builds
issuedCredential(supply, topicId, consumer) ==
    MCPCredential(topicId, myPersonId, consumer, supply.allowedTools,
                  DateNow, 0)

\* the credential revokeCredential builds
revokedCredential(topicId, consumer) ==
    MCPCredential(topicId, myPersonId, consumer, AbsentTools, 0, DateNow)

\* MCPCredentialCache.addCredential
addCredential(cache, credential) ==
    [cache EXCEPT ![<<credential.topicId, credential.providerPersonId>>] =
        credential]

\* MCPCredentialCache.removeCredential
removeCredential(cache, topicId, provider) ==
    [cache EXCEPT ![<<topicId, provider>>] = NoCredential]

\* MCPCredentialCache.getCredential
getCredential(cache, topicId, provider) == cache[<<topicId, provider>>]

hasCredentialRevokedToo(cache, topicId, provider) ==
    getCredential(cache, topicId, provider) # NoCredential

\* MCPCredentialCache.hasCredential, which MCPDemandManager.hasAccess returns
hasCredential(cache, topicId, provider) ==
    LET credential == getCredential(cache, topicId, provider)
    IN IF credential = NoCredential THEN FALSE
       ELSE IF credential.revokedAt # 0 THEN FALSE
       ELSE TRUE

\* MCPCredentialCache.isToolAllowed, which MCPDemandManager.isToolAllowed
\* returns
isToolAllowed(cache, topicId, provider, toolName) ==
    LET credential == getCredential(cache, topicId, provider)
    IN IF credential = NoCredential \/ credential.revokedAt # 0 THEN FALSE
       ELSE IF \/ credential.allowedTools = AbsentTools
               \/ Len(credential.allowedTools) = 0
            THEN TRUE
       ELSE Includes(credential.allowedTools, toolName)

HandleDemand(pcv, topicId, consumer, credential) ==
    [pc |-> pcv, topicId |-> topicId, consumer |-> consumer,
     credential |-> credential]

IdleDemand == HandleDemand("idle", Undefined, Undefined, NoCredential)

\* sendCredential called: the credential is on its way to the consumer
sendCredential(consumer, credential) ==
    /\ sentCredentials' = [sentCredentials EXCEPT ![consumer] = @ + 1]
    /\ channel' = [channel EXCEPT ![consumer] = Append(@, credential)]

\* createSupply up to its await of storeVersionedObject
CreateMCPSupplyCall(topicId, allowedTools) ==
    /\ managerCalls < MaxManagerCalls
    /\ managerCalls' = managerCalls + 1
    /\ pendingSupplies' =
           Append(pendingSupplies, MCPSupply(topicId, allowedTools))
    /\ UNCHANGED <<coreVars, clientVars, consumerVars, mcpSupplies, issuedCredentials,
                   credentialStore, sentCredentials, channel, hd,
                   issuedSince>>

\* storeVersionedObject resolved: this.supplies.set(topicId, supply)
CreateMCPSupplyDone(i) ==
    /\ i \in 1..Len(pendingSupplies)
    /\ mcpSupplies' =
           [mcpSupplies EXCEPT ![pendingSupplies[i].topicId] = pendingSupplies[i]]
    /\ pendingSupplies' = RemoveAt(pendingSupplies, i)
    /\ UNCHANGED <<coreVars, clientVars, consumerVars, managerCalls, issuedCredentials,
                   credentialStore, sentCredentials, channel, hd,
                   issuedSince>>

\* removeSupply: this.supplies.delete(topicId)
RemoveMCPSupply(topicId) ==
    /\ managerCalls < MaxManagerCalls
    /\ managerCalls' = managerCalls + 1
    /\ mcpSupplies' = [mcpSupplies EXCEPT ![topicId] = NoMCPSupply]
    /\ UNCHANGED <<coreVars, clientVars, consumerVars, pendingSupplies, issuedCredentials,
                   credentialStore, sentCredentials, channel, hd,
                   issuedSince>>

\* handleDemand up to its first await: null without a supply for the topic
\* or with a credential already issued to the consumer, otherwise the
\* credential is built and storeVersionedObject called
HandleDemandCall(h, topicId, consumer) ==
    /\ hd[h].pc = "idle"
    /\ \A g \in 1..(h - 1) : hd[g].pc # "idle"
    /\ hd' = [hd EXCEPT ![h] =
           IF ~hasSupply(mcpSupplies, topicId)
               THEN HandleDemand("null", topicId, consumer, NoCredential)
           ELSE IF alreadyIssued(issuedCredentials, topicId, consumer)
               THEN HandleDemand("null", topicId, consumer, NoCredential)
           ELSE HandleDemand("storing", topicId, consumer,
                    issuedCredential(mcpSupplies[topicId], topicId, consumer))]
    /\ UNCHANGED <<coreVars, clientVars, consumerVars, mcpSupplies, pendingSupplies,
                   managerCalls, issuedCredentials, credentialStore,
                   sentCredentials, channel, issuedSince>>

\* storeVersionedObject resolved: the consumer is added to the issued set
\* and sendCredential called
StoreCredentialOk(h) ==
    /\ hd[h].pc = "storing"
    /\ credentialStore' =
           [credentialStore EXCEPT ![<<hd[h].topicId, hd[h].consumer>>] = @ + 1]
    /\ issuedCredentials' =
           [issuedCredentials EXCEPT ![hd[h].topicId] = @ \cup {hd[h].consumer}]
    /\ issuedSince' =
           [issuedSince EXCEPT ![<<hd[h].topicId, hd[h].consumer>>] = @ + 1]
    /\ sendCredential(hd[h].consumer, hd[h].credential)
    /\ hd' = [hd EXCEPT ![h].pc = "sending"]
    /\ UNCHANGED <<coreVars, clientVars, consumerVars, mcpSupplies, pendingSupplies,
                   managerCalls>>

\* storeVersionedObject rejected: handleDemand rejects
StoreCredentialFail(h) ==
    /\ hd[h].pc = "storing"
    /\ hd' = [hd EXCEPT ![h].pc = "rejected"]
    /\ UNCHANGED <<coreVars, clientVars, consumerVars, mcpSupplies, pendingSupplies,
                   managerCalls, issuedCredentials, credentialStore,
                   sentCredentials, channel, issuedSince>>

\* sendCredential resolved: handleDemand returns the credential
SendCredentialOk(h) ==
    /\ hd[h].pc = "sending"
    /\ hd' = [hd EXCEPT ![h].pc = "returned"]
    /\ UNCHANGED <<coreVars, clientVars, consumerVars, mcpSupplies, pendingSupplies,
                   managerCalls, issuedCredentials, credentialStore,
                   sentCredentials, channel, issuedSince>>

\* sendCredential rejected: handleDemand rejects
SendCredentialFail(h) ==
    /\ hd[h].pc = "sending"
    /\ hd' = [hd EXCEPT ![h].pc = "rejected"]
    /\ UNCHANGED <<coreVars, clientVars, consumerVars, mcpSupplies, pendingSupplies,
                   managerCalls, issuedCredentials, credentialStore,
                   sentCredentials, channel, issuedSince>>

\* revokeCredential up to its await of sendCredential
RevokeCredential(topicId, consumer) ==
    /\ managerCalls < MaxManagerCalls
    /\ managerCalls' = managerCalls + 1
    /\ issuedCredentials' = revokeIssued(issuedCredentials, topicId, consumer)
    /\ issuedSince' = [issuedSince EXCEPT ![<<topicId, consumer>>] = 0]
    /\ sendCredential(consumer, revokedCredential(topicId, consumer))
    /\ UNCHANGED <<coreVars, clientVars, consumerVars, mcpSupplies, pendingSupplies,
                   credentialStore, hd>>

\* MCPDemandManager.receiveCredential
receiveCredential(consumer, credential) ==
    credentialCache' = [credentialCache EXCEPT
                            ![consumer] = addCredential(@, credential)]

\* the transport hands the consumer one of the credentials sent to it
DeliverCredential(consumer, i) ==
    /\ i \in 1..Len(channel[consumer])
    /\ receiveCredential(consumer, channel[consumer][i])
    /\ channel' = [channel EXCEPT ![consumer] = RemoveAt(@, i)]
    /\ UNCHANGED <<coreVars, clientVars, mcpSupplies, pendingSupplies, managerCalls,
                   issuedCredentials, credentialStore, sentCredentials, hd, issuedSince, received, lastLookup>>

\* receiveCredential called with any credential
ReceiveCredential(consumer, credential) ==
    /\ received < MaxReceived
    /\ received' = received + 1
    /\ receiveCredential(consumer, credential)
    /\ UNCHANGED <<coreVars, clientVars, providerVars, lastLookup>>

\* MCPDemandManager.revokeCredential
DemandRevokeCredential(consumer, topicId, provider) ==
    /\ getCredential(credentialCache[consumer], topicId, provider)
           # NoCredential
    /\ credentialCache' = [credentialCache EXCEPT
           ![consumer] = removeCredential(@, topicId, provider)]
    /\ UNCHANGED <<coreVars, clientVars, providerVars, received, lastLookup>>

Lookup(method, consumer, topicId, provider, toolName, result) ==
    [method |-> method, consumer |-> consumer, topicId |-> topicId,
     provider |-> provider, toolName |-> toolName, result |-> result]

NoLookup == Lookup(Undefined, Undefined, Undefined, Undefined, Undefined, FALSE)

\* MCPDemandManager.hasAccess
HasAccess(consumer, topicId, provider) ==
    /\ lastLookup' = Lookup("hasAccess", consumer, topicId, provider, Undefined,
           hasCredential(credentialCache[consumer], topicId, provider))
    /\ UNCHANGED <<coreVars, clientVars, providerVars, credentialCache, received>>

\* MCPDemandManager.isToolAllowed
IsToolAllowed(consumer, topicId, provider, toolName) ==
    /\ lastLookup' = Lookup("isToolAllowed", consumer, topicId, provider,
           toolName,
           isToolAllowed(credentialCache[consumer], topicId, provider, toolName))
    /\ UNCHANGED <<coreVars, clientVars, providerVars, credentialCache, received>>

\* the tools createSupply is called with for each scope
SupplyTools ==
    [t \in Scopes |-> IF t = "topic-42" THEN <<"search">> ELSE AbsentTools]

\* the provider after createSupply for the given topics
InitProvider(topics) ==
    /\ mcpSupplies = [t \in Scopes |-> IF t \in topics
                                         THEN MCPSupply(t, SupplyTools[t])
                                         ELSE NoMCPSupply]
    /\ pendingSupplies = <<>>
    /\ managerCalls = 0
    /\ issuedCredentials = [t \in Scopes |-> {}]
    /\ credentialStore = [k \in Scopes \X Consumers |-> 0]
    /\ sentCredentials = [c \in Consumers |-> 0]
    /\ channel = [c \in Consumers |-> <<>>]
    /\ hd = [h \in DemandIds |-> IdleDemand]
    /\ issuedSince = [k \in Scopes \X Consumers |-> 0]

InitConsumer ==
    /\ credentialCache =
           [c \in Consumers |-> [k \in Scopes \X Providers |-> NoCredential]]
    /\ received = 0
    /\ lastLookup = NoLookup

(***************************************************************************)
(* MCPRemoteClient: callTool, handleResponse, the timeout of a call and    *)
(* cancelAllRequests.  The client is the consumer "peer" and reads its     *)
(* MCPDemandManager.  A call's toolCall hash is the call's number: the     *)
(* toolCall objects carry distinct ids.  A timer that is set may fire at   *)
(* any later step: the model does not measure REQUEST_TIMEOUT.             *)
(***************************************************************************)
MaxRemoteCalls == 2  \* callTool invocations per behaviour

CallIds == 1..MaxRemoteCalls

MCPToolCallParams(toolName, topicId, targetPersonId) ==
    [toolName |-> toolName, topicId |-> topicId,
     targetPersonId |-> targetPersonId]

\* the calls made: an allowed tool, a tool outside the allow-list, a topic
\* whose credential is revoked, a provider without a credential
ToolCallPool ==
    {MCPToolCallParams("search", "topic-42", myPersonId),
     MCPToolCallParams("write", "topic-42", myPersonId),
     MCPToolCallParams("search", "topic-7", myPersonId),
     MCPToolCallParams("search", "topic-42", "other")}

RemoteCall(pcv, params, result) ==
    [pc |-> pcv, params |-> params, result |-> result]

callToolErrorNone(cache, params) == ""

\* callTool's checks before its first await: the error thrown, "" if none
callToolError(cache, params) ==
    IF ~hasCredential(cache, params.topicId, params.targetPersonId)
        THEN "No MCP access"
    ELSE IF ~isToolAllowed(cache, params.topicId, params.targetPersonId,
                           params.toolName)
        THEN "Tool not allowed by credential"
    ELSE ""

timeoutKeepsEntry(pending, id) == pending

\* the timeout callback: this.pendingRequests.delete(toolCallHash)
timeoutDeletes(pending, id) == pending \ {id}

hasPendingAlways(pending, id) == TRUE

\* handleResponse: this.pendingRequests.get(toolCallKey) is defined
hasPending(pending, id) == id \in pending

responseKeepsEntry(pending, id) == pending

\* handleResponse: this.pendingRequests.delete(toolCallKey)
responseDeletes(pending, id) == pending \ {id}

cancelKeeps(pending) == pending

\* cancelAllRequests: this.pendingRequests.clear()
cancelClears(pending) == {}

\* resolve or reject of the response promise of call id: a promise settles
\* once, and a callTool that returned the promise settles with it
settle(id, settled) ==
    /\ settles' = [settles EXCEPT ![id] = @ + 1]
    /\ responsePromise' = [responsePromise EXCEPT
           ![id] = IF @ = "pending" THEN settled ELSE @]
    /\ toolCalls' = [toolCalls EXCEPT
           ![id].result = IF toolCalls[id].pc = "waiting" /\ @ = "pending"
                              THEN settled ELSE @]

\* callTool up to its first await
CallTool(id, params) ==
    /\ toolCalls[id].pc = "idle"
    /\ \A j \in 1..(id - 1) : toolCalls[j].pc # "idle"
    /\ LET error == callToolError(credentialCache["peer"], params)
       IN toolCalls' = [toolCalls EXCEPT ![id] =
              IF error # "" THEN RemoteCall("rejected", params, error)
              ELSE RemoteCall("storing", params, "pending")]
    /\ UNCHANGED <<coreVars, providerVars, consumerVars, responsePromise,
                   pendingRequests, timers, storedToolCalls,
                   sentRequests, fetching, warned, fired, settles>>

\* storeVersionedObject resolved: the response promise is created with its
\* timer and its pending entry, and sendMessage called
StoreToolCallOk(id) ==
    /\ toolCalls[id].pc = "storing"
    /\ storedToolCalls' = storedToolCalls \cup {id}
    /\ responsePromise' = [responsePromise EXCEPT ![id] = "pending"]
    /\ timers' = timers \cup {id}
    /\ pendingRequests' = pendingRequests \cup {id}
    /\ sentRequests' = sentRequests \cup {id}
    /\ toolCalls' = [toolCalls EXCEPT ![id].pc = "sending"]
    /\ UNCHANGED <<coreVars, providerVars, consumerVars, fetching, warned,
                   fired, settles>>

\* storeVersionedObject rejected: callTool rejects
StoreToolCallFail(id) ==
    /\ toolCalls[id].pc = "storing"
    /\ toolCalls' = [toolCalls EXCEPT
           ![id] = RemoteCall("rejected", @.params, "store failed")]
    /\ UNCHANGED <<coreVars, providerVars, consumerVars, responsePromise,
                   pendingRequests, timers, storedToolCalls,
                   sentRequests, fetching, warned, fired, settles>>

\* sendMessage resolved: callTool returns the response promise
SendMessageOk(id) ==
    /\ toolCalls[id].pc = "sending"
    /\ toolCalls' = [toolCalls EXCEPT
           ![id] = RemoteCall("waiting", @.params, responsePromise[id])]
    /\ UNCHANGED <<coreVars, providerVars, consumerVars, responsePromise,
                   pendingRequests, timers, storedToolCalls,
                   sentRequests, fetching, warned, fired, settles>>

\* sendMessage rejected: callTool rejects
SendMessageFail(id) ==
    /\ toolCalls[id].pc = "sending"
    /\ toolCalls' = [toolCalls EXCEPT
           ![id] = RemoteCall("rejected", @.params, "send failed")]
    /\ UNCHANGED <<coreVars, providerVars, consumerVars, responsePromise,
                   pendingRequests, timers, storedToolCalls,
                   sentRequests, fetching, warned, fired, settles>>

\* handleResponse up to its await: a response without a pending entry is
\* warned about and dropped, otherwise the timer is cleared, the entry
\* deleted and getObject called
HandleResponse(id) ==
    /\ IF ~hasPending(pendingRequests, id)
           THEN /\ warned' = id
                /\ UNCHANGED <<pendingRequests, timers, fetching>>
           ELSE /\ timers' = timers \ {id}
                /\ pendingRequests' = responseDeletes(pendingRequests, id)
                /\ fetching' = fetching \cup {id}
                /\ UNCHANGED warned
    /\ UNCHANGED <<coreVars, providerVars, consumerVars, toolCalls,
                   responsePromise, storedToolCalls, sentRequests,
                   fired, settles>>

\* getObject resolved: pending.resolve(result)
FetchResultOk(id) ==
    /\ id \in fetching
    /\ fetching' = fetching \ {id}
    /\ settle(id, "resolved")
    /\ UNCHANGED <<coreVars, providerVars, consumerVars, pendingRequests,
                   timers, storedToolCalls, sentRequests, warned,
                   fired>>

\* a handleResponse without the catch: getObject's rejection rejects
\* handleResponse and the response promise stays as it is
FetchResultFailUncaught(id) ==
    /\ id \in fetching
    /\ fetching' = fetching \ {id}
    /\ UNCHANGED <<coreVars, providerVars, consumerVars, pendingRequests,
                   timers, storedToolCalls, sentRequests, warned,
                   fired, toolCalls, responsePromise, settles>>

\* getObject rejected: pending.reject("Failed to fetch MCP result")
FetchResultFail(id) ==
    /\ id \in fetching
    /\ fetching' = fetching \ {id}
    /\ settle(id, "Failed to fetch MCP result")
    /\ UNCHANGED <<coreVars, providerVars, consumerVars, pendingRequests,
                   timers, storedToolCalls, sentRequests, warned,
                   fired>>

\* the timer of call id fires, REQUEST_TIMEOUT after it was set
TimeoutFires(id) ==
    /\ id \in timers
    /\ timers' = timers \ {id}
    /\ fired' = fired \cup {id}
    /\ pendingRequests' = timeoutDeletes(pendingRequests, id)
    /\ settle(id, "MCP request timeout after 30000ms")
    /\ UNCHANGED <<coreVars, providerVars, consumerVars, storedToolCalls,
                   sentRequests, fetching, warned>>

\* cancelAllRequests
CancelAllRequests ==
    /\ pendingRequests # {}
    /\ timers' = timers \ pendingRequests
    /\ responsePromise' =
           [id \in CallIds |->
               IF id \in pendingRequests /\ responsePromise[id] = "pending"
                   THEN "Request cancelled" ELSE responsePromise[id]]
    /\ toolCalls' =
           [id \in CallIds |->
               IF /\ id \in pendingRequests
                  /\ toolCalls[id].pc = "waiting"
                  /\ toolCalls[id].result = "pending"
                   THEN [toolCalls[id] EXCEPT !.result = "Request cancelled"]
                   ELSE toolCalls[id]]
    /\ settles' = [id \in CallIds |->
           IF id \in pendingRequests THEN settles[id] + 1 ELSE settles[id]]
    /\ pendingRequests' = cancelClears(pendingRequests)
    /\ UNCHANGED <<coreVars, providerVars, consumerVars, storedToolCalls,
                   sentRequests, fetching, warned, fired>>

InitClient ==
    /\ toolCalls = [id \in CallIds |->
           RemoteCall("idle", MCPToolCallParams(Undefined, Undefined, Undefined),
                      "none")]
    /\ responsePromise = [id \in CallIds |-> "none"]
    /\ pendingRequests = {}
    /\ timers = {}
    /\ storedToolCalls = {}
    /\ sentRequests = {}
    /\ fetching = {}
    /\ warned = 0
    /\ fired = {}
    /\ settles = [id \in CallIds |-> 0]

(***************************************************************************)
(* The entry-point adapters in front of PlanRouter.call: IPCAdapter.handle,*)
(* MCPLocalAdapter.handle and MCPRemoteAdapter.handleRequest.  An adapter  *)
(* call and the router call it makes share the request number, and the     *)
(* toolCall hash of a remote request is that number.  Parameters and the   *)
(* data a plan method returns are not modelled; credentialId, which the    *)
(* adapters put into the context, is read by nothing in PolicyEngine and   *)
(* is not a field of the model's demand.                                   *)
(***************************************************************************)
NoMapping == [plan |-> Undefined, method |-> Undefined]

\* String.prototype.split with a one-character separator
RECURSIVE Split(_, _)
Split(s, sep) ==
    IF \E i \in 1..Len(s) : SubSeq(s, i, i) = sep
    THEN LET i == CHOOSE k \in 1..Len(s) :
                      /\ SubSeq(s, k, k) = sep
                      /\ \A j \in 1..(k - 1) : SubSeq(s, j, j) # sep
         IN <<SubSeq(s, 1, i - 1)>> \o Split(SubSeq(s, i + 1, Len(s)), sep)
    ELSE <<s>>

\* IPCAdapter.parseChannel
parseChannel(ipcChannel) ==
    LET parts == Split(ipcChannel, ":")
    IN IF Len(parts) # 2 THEN NoMapping
       ELSE [plan |-> parts[1], method |-> parts[2]]

\* the entries of TOOL_TO_PLAN_MAP the model's callers name
TOOL_TO_PLAN_MAP ==
    ("send_message" :> [plan |-> "chat", method |-> "sendMessage"])
    @@ ("get_messages" :> [plan |-> "chat", method |-> "getMessages"])
    @@ ("get_contacts" :> [plan |-> "contacts", method |-> "getContacts"])

\* mapToolToPlan of MCPLocalAdapter and of MCPRemoteAdapter
mapToolToPlan(toolName) ==
    IF toolName \in DOMAIN TOOL_TO_PLAN_MAP THEN TOOL_TO_PLAN_MAP[toolName]
    ELSE NoMapping

\* the result IPCAdapter.handle returns for a ipcChannel it cannot parse
invalidChannel(ipcChannel) ==
    Outcome("result", FALSE,
            "Invalid IPC ipcChannel format: " \o ipcChannel \o ". Expected 'plan:method'",
            NoDecision)

MCPToolResult(isError, text) == [isError |-> isError, text |-> text]

\* MCPLocalAdapter.createErrorResult
createErrorResult(message) == MCPToolResult(TRUE, "Error: " \o message)

\* MCPLocalAdapter.convertToMCPResult, for a plan method that returns no data
convertToMCPResult(result) ==
    IF ~result.success
    THEN createErrorResult(IF Falsy(result.error) THEN "Unknown error"
                           ELSE result.error)
    ELSE MCPToolResult(FALSE, "Operation completed successfully")

MCPToolResultObject(toolCallHash, success, error) ==
    [toolCallHash |-> toolCallHash, success |-> success, error |-> error]

\* the object sendResultResponse builds from the router's result
resultObject(toolCallHash, result) ==
    IF result.success THEN MCPToolResultObject(toolCallHash, TRUE, Undefined)
    ELSE MCPToolResultObject(toolCallHash, FALSE,
                             IF Falsy(result.error) THEN "Unknown error"
                             ELSE result.error)

\* the object sendErrorResponse builds
errorObject(toolCallHash, errorMessage) ==
    MCPToolResultObject(toolCallHash, FALSE, errorMessage)

\* an incoming MCPRequest with the tool its toolCall object names, its
\* sender and the topic it arrived in
RemoteRequest(toolName, targetPersonId, senderPersonId, topicId) ==
    [toolName |-> toolName, targetPersonId |-> targetPersonId,
     senderPersonId |-> senderPersonId, topicId |-> topicId]

\* what the adapters are called with: channels of two parts, one part and
\* three parts; a tool of a registered plan, of a plan that is not
\* registered, and an unknown tool; requests of a credential holder and of
\* a sender without one, and a request for another provider
Channels == {"chat:sendMessage", "chat", "files:read:all"}
LocalTools == {"send_message", "get_contacts", "drop_table"}
RemoteRequests ==
    { RemoteRequest("get_messages", myPersonId, "peer", "topic-42"),
      RemoteRequest("get_messages", myPersonId, "mallory", "topic-42"),
      RemoteRequest("get_contacts", myPersonId, "peer", "topic-42"),
      RemoteRequest("drop_table", myPersonId, "peer", "topic-42"),
      RemoteRequest("get_messages", "other", "peer", "topic-42") }

\* deps.getCallerId()
getCallerId == "alice"

\* One handle / handleRequest invocation.  pc: "routing" while router.call is
\* awaited, "returned" when the promise resolved, "rejected" when
\* router.call threw and the adapter let it through, "failed" when
\* storeVersionedObject or sendMessage rejected.  result: what handle
\* resolved or rejected with, for a remote request the result object built.
\* sent: the MCPResponses handed to sendMessage for the request.
AdapterCall(adapter, pcv, input, result, sent) ==
    [adapter |-> adapter, pc |-> pcv, input |-> input, result |-> result,
     sent |-> sent]

IdleCall == AdapterCall("none", "idle", Undefined, NoOutcome, 0)

\* IPCAdapter.handle up to its await of router.call
IPCHandle(r, ipcChannel) ==
    /\ adapterCalls[r].pc = "idle"
    /\ LET parsed == parseChannel(ipcChannel) IN
       IF parsed = NoMapping
       THEN /\ adapterCalls' = [adapterCalls EXCEPT ![r] =
                   AdapterCall("ipc", "returned", ipcChannel,
                               invalidChannel(ipcChannel), 0)]
            /\ UNCHANGED <<loggerVars, peerVars, reloadFailed, policyVars,
                           storageVars, now, requestVars, auditVars>>
       ELSE /\ RouterEnter(r, Demand(getCallerId, "user", "ipc", Undefined,
                                     parsed.plan, parsed.method))
            /\ adapterCalls' = [adapterCalls EXCEPT ![r] =
                   AdapterCall("ipc", "routing", ipcChannel, NoOutcome, 0)]

\* router.call has settled: IPCAdapter.handle returns what it returned, and
\* what it threw leaves handle
IPCRouted(r) ==
    /\ adapterCalls[r].adapter = "ipc"
    /\ adapterCalls[r].pc = "routing"
    /\ pc[r] \in {"returned", "rejected"}
    /\ adapterCalls' = [adapterCalls EXCEPT ![r].pc = pc[r],
                                            ![r].result = outcome[r]]
    /\ UNCHANGED <<loggerVars, peerVars, reloadFailed, policyVars, storageVars,
                   now, requestVars, auditVars>>

\* MCPLocalAdapter.handle up to its await of router.call
MCPLocalHandle(r, toolName) ==
    /\ adapterCalls[r].pc = "idle"
    /\ LET mapping == mapToolToPlan(toolName) IN
       IF mapping = NoMapping
       THEN /\ adapterCalls' = [adapterCalls EXCEPT ![r] =
                   AdapterCall("mcp-local", "returned", toolName,
                               createErrorResult("Unknown tool: " \o toolName), 0)]
            /\ UNCHANGED <<loggerVars, peerVars, reloadFailed, policyVars,
                           storageVars, now, requestVars, auditVars>>
       ELSE /\ RouterEnter(r, Demand(getCallerId, "llm", "mcp-local", Undefined,
                                     mapping.plan, mapping.method))
            /\ adapterCalls' = [adapterCalls EXCEPT ![r] =
                   AdapterCall("mcp-local", "routing", toolName, NoOutcome, 0)]

\* router.call has settled: its result is converted, and what it threw
\* leaves handle
MCPLocalRouted(r) ==
    /\ adapterCalls[r].adapter = "mcp-local"
    /\ adapterCalls[r].pc = "routing"
    /\ pc[r] \in {"returned", "rejected"}
    /\ adapterCalls' = [adapterCalls EXCEPT
           ![r].pc = pc[r],
           ![r].result = IF pc[r] = "returned" THEN convertToMCPResult(outcome[r])
                         ELSE outcome[r]]
    /\ UNCHANGED <<loggerVars, peerVars, reloadFailed, policyVars, storageVars,
                   now, requestVars, auditVars>>

\* MCPRemoteAdapter.handleRequest up to its await of getObject
HandleRequest(r, request) ==
    /\ adapterCalls[r].pc = "idle"
    /\ adapterCalls' = [adapterCalls EXCEPT ![r] =
           AdapterCall("mcp-remote",
                       IF request.targetPersonId # myPersonId THEN "returned"
                       ELSE "fetching",
                       request, NoOutcome, 0)]
    /\ UNCHANGED <<loggerVars, peerVars, reloadFailed, policyVars, storageVars,
                   now, requestVars, auditVars>>

\* getObject resolved: an unknown tool is answered by sendErrorResponse, any
\* other goes to router.call
GetToolCallOk(r) ==
    /\ adapterCalls[r].pc = "fetching"
    /\ LET request == adapterCalls[r].input
           mapping == mapToolToPlan(request.toolName)
       IN IF mapping = NoMapping
          THEN /\ adapterCalls' = [adapterCalls EXCEPT
                      ![r].pc = "storing",
                      ![r].result =
                          errorObject(r, "Unknown tool: " \o request.toolName)]
               /\ UNCHANGED <<loggerVars, peerVars, reloadFailed, policyVars,
                              storageVars, now, requestVars, auditVars>>
          ELSE /\ RouterEnter(r, Demand(request.senderPersonId, "remote",
                                        "mcp-remote", request.topicId,
                                        mapping.plan, mapping.method))
               /\ adapterCalls' = [adapterCalls EXCEPT ![r].pc = "routing"]

\* getObject rejected: sendErrorResponse
GetToolCallFail(r) ==
    /\ adapterCalls[r].pc = "fetching"
    /\ adapterCalls' = [adapterCalls EXCEPT
           ![r].pc = "storing",
           ![r].result = errorObject(r, "Failed to fetch tool call object")]
    /\ UNCHANGED <<loggerVars, peerVars, reloadFailed, policyVars, storageVars,
                   now, requestVars, auditVars>>

\* router.call has settled: sendResultResponse builds the result object, and
\* what router.call threw leaves handleRequest
RemoteRouted(r) ==
    /\ adapterCalls[r].adapter = "mcp-remote"
    /\ adapterCalls[r].pc = "routing"
    /\ pc[r] \in {"returned", "rejected"}
    /\ adapterCalls' = [adapterCalls EXCEPT
           ![r].pc = IF pc[r] = "returned" THEN "storing" ELSE "rejected",
           ![r].result = IF pc[r] = "returned" THEN resultObject(r, outcome[r])
                         ELSE outcome[r]]
    /\ UNCHANGED <<loggerVars, peerVars, reloadFailed, policyVars, storageVars,
                   now, requestVars, auditVars>>

\* storeVersionedObject of the result object resolved: the MCPResponse is
\* handed to sendMessage
StoreResultOk(r) ==
    /\ adapterCalls[r].pc = "storing"
    /\ adapterCalls' = [adapterCalls EXCEPT ![r].pc = "sending",
                                            ![r].sent = @ + 1]
    /\ UNCHANGED <<loggerVars, peerVars, reloadFailed, policyVars, storageVars,
                   now, requestVars, auditVars>>

StoreResultFail(r) ==
    /\ adapterCalls[r].pc = "storing"
    /\ adapterCalls' = [adapterCalls EXCEPT ![r].pc = "failed"]
    /\ UNCHANGED <<loggerVars, peerVars, reloadFailed, policyVars, storageVars,
                   now, requestVars, auditVars>>

\* sendMessage settled
SendResponseOk(r) ==
    /\ adapterCalls[r].pc = "sending"
    /\ adapterCalls' = [adapterCalls EXCEPT ![r].pc = "returned"]
    /\ UNCHANGED <<loggerVars, peerVars, reloadFailed, policyVars, storageVars,
                   now, requestVars, auditVars>>

SendResponseFail(r) ==
    /\ adapterCalls[r].pc = "sending"
    /\ adapterCalls' = [adapterCalls EXCEPT ![r].pc = "failed"]
    /\ UNCHANGED <<loggerVars, peerVars, reloadFailed, policyVars, storageVars,
                   now, requestVars, auditVars>>

\* DefaultSupplies.ts
defaultPolicySupplies ==
    << Supply("supply:system:all", "System full access", 1000, <<>>, <<>>,
              <<"system">>, <<>>, <<>>, "allow", NoRateLimit),
       Supply("supply:internal:all", "Internal full access", 990, <<>>, <<>>,
              <<>>, <<"internal">>, <<>>, "allow", NoRateLimit),
       Supply("supply:ipc:user", "Local user IPC access", 900, <<>>, <<>>,
              <<"user">>, <<"ipc">>, <<>>, "allow", NoRateLimit),
       Supply("supply:mcp-local:llm", "Local LLM MCP access", 800, <<>>, <<>>,
              <<"llm">>, <<"mcp-local">>, <<>>, "allow-with-audit", NoRateLimit),
       Supply("supply:mcp-remote:credentialed", "Remote MCP with credential",
              700, <<>>, <<>>, <<>>, <<"mcp-remote">>, <<>>, "allow-with-audit",
              NoRateLimit),
       Supply("supply:mcp-remote:rate-limit", "Remote rate limiting", 650,
              <<>>, <<>>, <<>>, <<"mcp-remote">>, <<>>, "rate-limit",
              RateLimit(100, 60000, "caller")),
       Supply("supply:audit:delete", "Audit delete operations", 500, <<>>,
              <<"delete*">>, <<>>, <<>>, <<>>, "allow-with-audit", NoRateLimit),
       Supply("supply:audit:remove", "Audit remove operations", 500, <<>>,
              <<"remove*">>, <<>>, <<>>, <<>>, "allow-with-audit", NoRateLimit),
       Supply("supply:audit:revoke", "Audit revoke operations", 500, <<>>,
              <<"revoke*">>, <<>>, <<>>, <<>>, "allow-with-audit", NoRateLimit),
       Supply("supply:http:all", "HTTP API access", 400, <<>>, <<>>, <<>>,
              <<"http">>, <<>>, "allow-with-audit", NoRateLimit) >>


(***************************************************************************)
(* MCPRemoteHandler.handleRequest on the provider: the sender's credential *)
(* is looked up in the MCPSupplyManager, the tool call fetched, the tool   *)
(* checked against the topic's supply and executed, and the result sent.   *)
(***************************************************************************)
MaxRequests == 1     \* MCPRemoteHandler.handleRequest invocations per behaviour

HandlerIds == 1..MaxRequests

\* MCPSupplyManager.getSupply: undefined without a supply for the topic
getSupply(map, topicId) == map[topicId]

\* the handler's tool check: refused when the topic has a supply whose
\* allowedTools is there (an empty array is truthy) and lacks the tool
toolRefused(supply, toolName) ==
    /\ supply # NoMCPSupply
    /\ supply.allowedTools # AbsentTools
    /\ ~Includes(supply.allowedTools, toolName)

\* One handleRequest invocation; executed: toolExecutor.execute calls so far
HandlerCall(pcv, request, result, sent, executed) ==
    [pc |-> pcv, request |-> request, result |-> result, sent |-> sent,
     executed |-> executed]

NoRequest == RemoteRequest(Undefined, Undefined, Undefined, Undefined)

NoResultObject == MCPToolResultObject(0, FALSE, Undefined)

IdleHandler == HandlerCall("idle", NoRequest, NoResultObject, 0, 0)

\* the requests the handler receives: of the consumer and of a stranger, a
\* request for another provider
HandlerRequests ==
    { RemoteRequest("search", myPersonId, "peer", "topic-42"),
      RemoteRequest("write", myPersonId, "peer", "topic-42"),
      RemoteRequest("search", myPersonId, "peer", "topic-7"),
      RemoteRequest("search", myPersonId, "mallory", "topic-42"),
      RemoteRequest("search", "other", "peer", "topic-42") }

\* handleRequest up to its first await
HandlerRequest(q, request) ==
    /\ handlerCalls[q].pc = "idle"
    /\ \A g \in 1..(q - 1) : handlerCalls[g].pc # "idle"
    /\ handlerCalls' = [handlerCalls EXCEPT ![q] =
           IF request.targetPersonId # myPersonId
               THEN HandlerCall("returned", request, NoResultObject, 0, 0)
           ELSE IF ~hasValidCredential(issuedCredentials, request.topicId,
                                       request.senderPersonId)
               THEN HandlerCall("storing", request,
                                errorObject(q, "No valid MCP credential"), 0, 0)
           ELSE HandlerCall("fetching", request, NoResultObject, 0, 0)]
    /\ UNCHANGED <<routerVars, providerVars, consumerVars, clientVars>>

\* getObject resolved: the tool is checked against the supply the topic has
\* now, and toolExecutor.execute called
HandlerGetObjectOk(q) ==
    /\ handlerCalls[q].pc = "fetching"
    /\ LET request == handlerCalls[q].request
           supply == getSupply(mcpSupplies, request.topicId)
       IN handlerCalls' = [handlerCalls EXCEPT ![q] =
              IF toolRefused(supply, request.toolName)
              THEN [@ EXCEPT !.pc = "storing",
                             !.result = errorObject(q,
                                 "Tool " \o request.toolName \o " not allowed")]
              ELSE [@ EXCEPT !.pc = "executing", !.executed = @ + 1]]
    /\ UNCHANGED <<routerVars, providerVars, consumerVars, clientVars>>

\* getObject rejected
HandlerGetObjectFail(q) ==
    /\ handlerCalls[q].pc = "fetching"
    /\ handlerCalls' = [handlerCalls EXCEPT
           ![q].pc = "storing",
           ![q].result = errorObject(q, "Failed to fetch tool call object")]
    /\ UNCHANGED <<routerVars, providerVars, consumerVars, clientVars>>

\* toolExecutor.execute resolved without isError
ExecuteToolOk(q) ==
    /\ handlerCalls[q].pc = "executing"
    /\ handlerCalls' = [handlerCalls EXCEPT
           ![q].pc = "storing",
           ![q].result = MCPToolResultObject(q, TRUE, Undefined)]
    /\ UNCHANGED <<routerVars, providerVars, consumerVars, clientVars>>

\* toolExecutor.execute resolved with isError, or rejected
ExecuteToolFail(q) ==
    /\ handlerCalls[q].pc = "executing"
    /\ handlerCalls' = [handlerCalls EXCEPT
           ![q].pc = "storing",
           ![q].result = MCPToolResultObject(q, FALSE, "Unknown error")]
    /\ UNCHANGED <<routerVars, providerVars, consumerVars, clientVars>>

\* storeVersionedObject of the result resolved: the response is handed to
\* sendMessage
HandlerStoreOk(q) ==
    /\ handlerCalls[q].pc = "storing"
    /\ handlerCalls' = [handlerCalls EXCEPT ![q].pc = "sending",
                                            ![q].sent = @ + 1]
    /\ UNCHANGED <<routerVars, providerVars, consumerVars, clientVars>>

HandlerStoreFail(q) ==
    /\ handlerCalls[q].pc = "storing"
    /\ handlerCalls' = [handlerCalls EXCEPT ![q].pc = "failed"]
    /\ UNCHANGED <<routerVars, providerVars, consumerVars, clientVars>>

\* sendMessage settled
HandlerSendOk(q) ==
    /\ handlerCalls[q].pc = "sending"
    /\ handlerCalls' = [handlerCalls EXCEPT ![q].pc = "returned"]
    /\ UNCHANGED <<routerVars, providerVars, consumerVars, clientVars>>

HandlerSendFail(q) ==
    /\ handlerCalls[q].pc = "sending"
    /\ handlerCalls' = [handlerCalls EXCEPT ![q].pc = "failed"]
    /\ UNCHANGED <<routerVars, providerVars, consumerVars, clientVars>>


(***************************************************************************)
(* Specifications.                                                         *)
(*                                                                         *)
(* SpecRules: the engine's rule map, from an empty engine over an empty    *)
(* storage: rules are created, removed and reloaded, their storage calls   *)
(* completing in any order, and a demand is evaluated against the result.  *)
(* SpecPolicy: evaluate called repeatedly, as time passes, on an engine    *)
(* that holds any rule map of up to MaxRules supplies.                     *)
(* SpecRouter: concurrent PlanRouter.call invocations on an engine holding *)
(* at most one supply, with the AuditLogger's flushes interleaved; the     *)
(* clock stands still, so every execution time is 0.                       *)
(***************************************************************************)
InitRequests ==
    /\ pc = [r \in RequestIds |-> "idle"]
    /\ demand = [r \in RequestIds |-> NoDemand]
    /\ ctxTime = [r \in RequestIds |-> 0]
    /\ startTime = [r \in RequestIds |-> 0]
    /\ decision = [r \in RequestIds |-> NoDecision]
    /\ handed = [r \in RequestIds |-> <<>>]
    /\ stored = [r \in RequestIds |-> "none"]
    /\ evaluated = [r \in RequestIds |-> NoDecision]
    /\ executions = [r \in RequestIds |-> 0]
    /\ raised = [r \in RequestIds |-> Undefined]
    /\ outcome = [r \in RequestIds |-> NoOutcome]
    /\ evaluations = 0
    /\ rlLog = <<>>
    /\ adapterCalls = [r \in RequestIds |-> IdleCall]
    /\ handlerCalls = [q \in HandlerIds |-> IdleHandler]

InitAuditLogger ==
    /\ buffer = <<>>
    /\ flushing = <<>>
    /\ auditStorage = <<>>
    /\ flushTimer = TRUE
    /\ flushes = 0
    /\ logged = 0
    /\ opPc = [op \in AuditOps |-> "idle"]
    /\ opBatch = [op \in AuditOps |-> <<>>]
    /\ loggedAtCall = [op \in AuditOps |-> {}]
    /\ queryFilter = Undefined
    /\ queryResult = <<>>
    /\ storeFailed = FALSE

InitAudit ==
    InitAuditLogger /\ InitProvider({}) /\ InitConsumer /\ InitClient

\* The rule maps an initialised engine can hold: supplies with distinct ids
RuleMaps(n) ==
    {m \in UNION {Orderings(S) : S \in SUBSET SupplyPool} :
        /\ Len(m) <= n
        /\ \A i, j \in 1..Len(m) : i # j => m[i].id # m[j].id}

InitEngine(maps) ==
    /\ supplies \in maps
    /\ sortedSupplies = SortByPriority(supplies)
    /\ rateLimitCounters = <<>>
    /\ policyStorage = Range(supplies)
    /\ pendingOps = <<>>
    /\ mutations = 0
    /\ insertedAt = EnteredByLoad(supplies, 0)
    /\ inserts = Len(supplies)
    /\ now = 0
    /\ reloadFailed = FALSE

InitRules == InitEngine({<<>>}) /\ InitRequests /\ InitAudit

NextRules ==
    \/ \E supply \in SupplyPool : CreateSupplyCall(supply)
    \/ \E i \in 1..MaxPending : CreateSupplyDone(i)
    \/ \E id \in SupplyIds : RemoveSupplyCall(id)
    \/ \E i \in 1..MaxPending : RemoveSupplyDone(i)
    \/ ReloadCall
    \/ \E i \in 1..MaxPending : ReloadDone(i)
    \/ \E i \in 1..MaxPending : ReloadFail(i)
    \/ \E d \in DemandPool : evaluations = 0 /\ EvaluateCall(d)
    \/ StoreDemandOk(1)
    \/ StoreDemandFail(1)

SpecRules == InitRules /\ [][NextRules]_vars

InitPolicy == InitEngine(RuleMaps(MaxRules)) /\ InitRequests /\ InitAudit

NextPolicy ==
    \/ \E d \in DemandPool : EvaluateCall(d)
    \/ StoreDemandOk(1)
    \/ StoreDemandFail(1)
    \/ Tick

SpecPolicy == InitPolicy /\ [][NextPolicy]_vars

\* The router's engine holds one supply of the pool, or none
CallRuleMaps == {<<>>} \cup {<<s>> : s \in SupplyPool}

InitRouter == InitEngine(CallRuleMaps) /\ InitRequests /\ InitAudit

NextRouter ==
    \/ \E r \in 1..MaxCalls, d \in CallPool : RouterCall(r, d)
    \/ \E r \in 1..MaxCalls : StoreDemandOk(r)
    \/ \E r \in 1..MaxCalls : StoreDemandFail(r)
    \/ \E r \in 1..MaxCalls : RouterProceed(r)
    \/ \E r \in 1..MaxCalls : ExecuteOk(r)
    \/ \E r \in 1..MaxCalls : ExecuteThrow(r)
    \/ TimerFlush
    \/ \E b \in 1..(MaxFlushes + MaxCalls) : StoreEntryOk(b)
    \/ \E b \in 1..(MaxFlushes + MaxCalls) : StoreEntryFail(b)

SpecRouter == InitRouter /\ [][NextRouter]_vars

\* SpecAudit: the AuditLogger on its own: entries are logged, the timer and
\* the full buffer start flushes, query and shutdown are each called once,
\* and storeEntry resolves or rejects.
InitLogger == InitEngine({<<>>}) /\ InitRequests /\ InitAudit

NextAudit ==
    \/ \E dec \in {"allowed", "denied"} : LogRequest(dec)
    \/ TimerFlush
    \/ \E b \in 1..(MaxFlushes + MaxEntries) : StoreEntryOk(b)
    \/ \E b \in 1..(MaxFlushes + MaxEntries) : StoreEntryFail(b)
    \/ \E filter \in AuditFilters : QueryCall(filter)
    \/ QueryRead
    \/ ShutdownCall
    \/ \E op \in AuditOps : OpStoreEntryOk(op)
    \/ \E op \in AuditOps : OpStoreEntryFail(op)

SpecAudit == InitLogger /\ [][NextAudit]_vars

(***************************************************************************)
(* SpecAuditLive: the AuditLogger between init and shutdown, and after     *)
(* it.  Entries are logged, the periodic timer fires again and again       *)
(* while it is armed, shutdown may be called, and no query is made.        *)
(* Fairness: an armed timer fires, every storeEntry call settles, and a    *)
(* store that is attempted again and again eventually succeeds.            *)
(***************************************************************************)
\* scheduleFlush's timer fires, any number of times: flush, and schedule
\* the next
TimerFires ==
    /\ flushTimer
    /\ buffer' = flushBuffer(buffer)
    /\ flushing' = flushBatches(buffer, flushing)
    /\ UNCHANGED <<extVars, policyVars, storageVars, now, requestVars, auditStorage,
                   flushTimer, flushes>>

NextAuditLive ==
    \/ \E dec \in {"allowed", "denied"} : LogRequest(dec)
    \/ TimerFires
    \/ \E b \in 1..MaxEntries : StoreEntryOk(b)
    \/ \E b \in 1..MaxEntries : StoreEntryFail(b)
    \/ ShutdownCall
    \/ OpStoreEntryOk("shutdown")
    \/ OpStoreEntryFail("shutdown")

FairAudit ==
    /\ WF_vars(TimerFires)
    /\ \A b \in 1..MaxEntries :
          /\ WF_vars(StoreEntryOk(b) \/ StoreEntryFail(b))
          /\ SF_vars(StoreEntryOk(b))
    /\ WF_vars(OpStoreEntryOk("shutdown") \/ OpStoreEntryFail("shutdown"))
    /\ SF_vars(OpStoreEntryOk("shutdown"))

SpecAuditLive == InitLogger /\ [][NextAuditLive]_vars /\ FairAudit

\* the credentials a consumer may be handed
ReceivedCredentials ==
    {MCPCredential(t, p, c, tools, DateNow, revokedAt) :
        t \in Scopes, p \in Providers, c \in Consumers, tools \in AllowedTools,
        revokedAt \in {0, DateNow}}

\* the provider has created its supply for "topic-42"
InitCredentials ==
    /\ InitEngine({<<>>})
    /\ InitRequests
    /\ InitAuditLogger
    /\ InitProvider({"topic-42"})
    /\ InitConsumer
    /\ InitClient

NextProvider ==
    \/ \E t \in Scopes : CreateMCPSupplyCall(t, SupplyTools[t])
    \/ \E i \in 1..MaxManagerCalls : CreateMCPSupplyDone(i)
    \/ \E t \in Scopes : RemoveMCPSupply(t)
    \/ \E h \in DemandIds : StoreCredentialOk(h)
    \/ \E h \in DemandIds : StoreCredentialFail(h)
    \/ \E h \in DemandIds : SendCredentialOk(h)
    \/ \E h \in DemandIds : SendCredentialFail(h)
    \/ \E t \in Scopes, c \in Consumers : RevokeCredential(t, c)
    \/ \E c \in Consumers, i \in 1..(MaxDemands + MaxManagerCalls) :
           DeliverCredential(c, i)

NextCredentials ==
    \/ \E h \in DemandIds, t \in Scopes, c \in Consumers :
           HandleDemandCall(h, t, c)
    \/ NextProvider

SpecCredentials == InitCredentials /\ [][NextCredentials]_vars

\* handleDemand called by a caller that awaits each call before the next
HandleDemandInTurn(h, topicId, consumer) ==
    /\ \A g \in DemandIds : hd[g].pc \notin {"storing", "sending"}
    /\ HandleDemandCall(h, topicId, consumer)

NextIssue ==
    \/ \E h \in DemandIds, t \in Scopes, c \in Consumers :
           HandleDemandInTurn(h, t, c)
    \/ NextProvider

SpecIssue == InitCredentials /\ [][NextIssue]_vars

\* the client's cache: a credential for "topic-42" that allows "search",
\* and a revoked credential for "topic-7"
InitRemoteClient ==
    /\ InitEngine({<<>>})
    /\ InitRequests
    /\ InitAuditLogger
    /\ InitProvider({})
    /\ InitClient
    /\ credentialCache =
           [c \in Consumers |->
               addCredential(
                   addCredential(
                       [k \in Scopes \X Providers |-> NoCredential],
                       MCPCredential("topic-42", myPersonId, c, <<"search">>,
                                     DateNow, 0)),
                   MCPCredential("topic-7", myPersonId, c, AbsentTools, 0,
                                 DateNow))]
    /\ received = 0
    /\ lastLookup = NoLookup

NextClient ==
    \/ \E id \in CallIds, params \in ToolCallPool : CallTool(id, params)
    \/ \E id \in CallIds : StoreToolCallOk(id)
    \/ \E id \in CallIds : StoreToolCallFail(id)
    \/ \E id \in CallIds : SendMessageOk(id)
    \/ \E id \in CallIds : SendMessageFail(id)
    \/ \E id \in CallIds : HandleResponse(id)
    \/ \E id \in CallIds : FetchResultOk(id)
    \/ \E id \in CallIds : FetchResultFail(id)
    \/ \E id \in CallIds : TimeoutFires(id)
    \/ CancelAllRequests

SpecClient == InitRemoteClient /\ [][NextClient]_vars

\* what callTool's caller may rely on: every storeVersionedObject, sendMessage
\* and getObject call settles, one way or the other, and a timer that stays
\* set fires.  Responses, further calls and cancelAllRequests come from
\* outside and need not happen.
FairClient ==
    \A id \in CallIds :
        /\ WF_vars(StoreToolCallOk(id) \/ StoreToolCallFail(id))
        /\ WF_vars(SendMessageOk(id) \/ SendMessageFail(id))
        /\ WF_vars(FetchResultOk(id) \/ FetchResultFail(id))
        /\ WF_vars(TimeoutFires(id))

SpecClientLive == InitRemoteClient /\ [][NextClient]_vars /\ FairClient

NextCache ==
    \/ \E c \in Consumers, credential \in ReceivedCredentials :
           /\ credential.consumerPersonId = c
           /\ ReceiveCredential(c, credential)
    \/ \E c \in Consumers, t \in Scopes, p \in Providers :
           DemandRevokeCredential(c, t, p)
    \/ \E c \in Consumers, t \in Scopes, p \in Providers : HasAccess(c, t, p)
    \/ \E c \in Consumers, t \in Scopes, p \in Providers, tool \in ToolNames :
           IsToolAllowed(c, t, p, tool)

SpecCache == InitCredentials /\ [][NextCache]_vars

\* SpecAdapters: the three adapters over one router, one call at a time, on
\* an engine without rules or with the default supplies; the provider has
\* issued the consumer "peer" a credential for topic-42.
InitAdapters ==
    /\ InitEngine({<<>>, defaultPolicySupplies})
    /\ InitRequests /\ InitAuditLogger /\ InitConsumer /\ InitClient
    /\ mcpSupplies = [t \in Scopes |-> IF t = "topic-42"
                                        THEN MCPSupply(t, SupplyTools[t])
                                        ELSE NoMCPSupply]
    /\ pendingSupplies = <<>>
    /\ managerCalls = 1
    /\ issuedCredentials = [t \in Scopes |-> IF t = "topic-42" THEN {"peer"} ELSE {}]
    /\ credentialStore = [k \in Scopes \X Consumers |->
                             IF k[1] = "topic-42" THEN 1 ELSE 0]
    /\ sentCredentials = [c \in Consumers |-> 1]
    /\ channel = [c \in Consumers |-> <<>>]
    /\ hd = [h \in DemandIds |-> IdleDemand]
    /\ issuedSince = [k \in Scopes \X Consumers |->
                         IF k[1] = "topic-42" THEN 1 ELSE 0]

\* the caller awaits each call before the next
InTurn(r) ==
    \A q \in RequestIds :
        q < r => adapterCalls[q].pc \in {"returned", "rejected", "failed"}

NextAdapters ==
    \/ \E r \in RequestIds, c \in Channels : InTurn(r) /\ IPCHandle(r, c)
    \/ \E r \in RequestIds : IPCRouted(r)
    \/ \E r \in RequestIds, t \in LocalTools : InTurn(r) /\ MCPLocalHandle(r, t)
    \/ \E r \in RequestIds : MCPLocalRouted(r)
    \/ \E r \in RequestIds, q \in RemoteRequests : InTurn(r) /\ HandleRequest(r, q)
    \/ \E r \in RequestIds : GetToolCallOk(r)
    \/ \E r \in RequestIds : GetToolCallFail(r)
    \/ \E r \in RequestIds : RemoteRouted(r)
    \/ \E r \in RequestIds : StoreResultOk(r)
    \/ \E r \in RequestIds : StoreResultFail(r)
    \/ \E r \in RequestIds : SendResponseOk(r)
    \/ \E r \in RequestIds : SendResponseFail(r)
    \/ \E r \in RequestIds : StoreDemandOk(r)
    \/ \E r \in RequestIds : StoreDemandFail(r)
    \/ \E r \in RequestIds : RouterProceed(r)
    \/ \E r \in RequestIds : ExecuteOk(r)
    \/ \E r \in RequestIds : ExecuteThrow(r)

SpecAdapters == InitAdapters /\ [][NextAdapters]_vars

\* SpecHandler: the provider's MCPSupplyManager and its MCPRemoteHandler.
\* The supply of "topic-42" carries no allow-list, an empty one or one tool,
\* and the consumer "peer" has demanded and received its credential;
\* supplies are created and removed and the credential revoked while
\* requests are handled.
InitHandler ==
    /\ InitEngine({<<>>})
    /\ InitRequests /\ InitAuditLogger /\ InitClient
    /\ \E tools \in AllowedTools :
           /\ mcpSupplies = [t \in Scopes |-> IF t = "topic-42"
                                                  THEN MCPSupply(t, tools)
                                                  ELSE NoMCPSupply]
           /\ credentialCache =
                  [c \in Consumers |->
                      addCredential([k \in Scopes \X Providers |-> NoCredential],
                                    issuedCredential(MCPSupply("topic-42", tools),
                                                     "topic-42", c))]
    /\ received = 0
    /\ lastLookup = NoLookup
    /\ pendingSupplies = <<>>
    /\ managerCalls = 0
    /\ issuedCredentials = [t \in Scopes |-> IF t = "topic-42" THEN Consumers ELSE {}]
    /\ credentialStore = [k \in Scopes \X Consumers |->
                             IF k[1] = "topic-42" THEN 1 ELSE 0]
    /\ sentCredentials = [c \in Consumers |-> 1]
    /\ channel = [c \in Consumers |-> <<>>]
    /\ hd = [h \in DemandIds |-> IdleDemand]
    /\ issuedSince = [k \in Scopes \X Consumers |->
                         IF k[1] = "topic-42" THEN 1 ELSE 0]

NextHandler ==
    \/ \E q \in HandlerIds, request \in HandlerRequests : HandlerRequest(q, request)
    \/ \E q \in HandlerIds : HandlerGetObjectOk(q)
    \/ \E q \in HandlerIds : HandlerGetObjectFail(q)
    \/ \E q \in HandlerIds : ExecuteToolOk(q)
    \/ \E q \in HandlerIds : ExecuteToolFail(q)
    \/ \E q \in HandlerIds : HandlerStoreOk(q)
    \/ \E q \in HandlerIds : HandlerStoreFail(q)
    \/ \E q \in HandlerIds : HandlerSendOk(q)
    \/ \E q \in HandlerIds : HandlerSendFail(q)
    \/ \E t \in Scopes : CreateMCPSupplyCall(t, SupplyTools[t])
    \/ \E i \in 1..MaxManagerCalls : CreateMCPSupplyDone(i)
    \/ \E t \in Scopes : RemoveMCPSupply(t)
    \/ \E t \in Scopes, c \in Consumers : RevokeCredential(t, c)
    \/ \E c \in Consumers, i \in 1..MaxManagerCalls : DeliverCredential(c, i)

SpecHandler == InitHandler /\ [][NextHandler]_vars

(***************************************************************************)
(* SpecDefaults: an engine holding defaultPolicySupplies is asked again    *)
(* and again by one remote caller, each call awaited before the next, more *)
(* often than the cap of the default rate-limit supply and within one of   *)
(* its windows (the clock stays far below windowMs).                       *)
(***************************************************************************)
MaxRemoteEvals == 102   \* evaluate invocations per behaviour of SpecDefaults

RemoteDemands ==
    { Demand("peer", "remote", "mcp-remote", "topic-42", "chat", "getMessages"),
      Demand("peer", "remote", "mcp-remote", Undefined, "chat", "sendMessage") }

RemoteEvaluate(d) ==
    /\ pc[1] \in {"idle", "evaluated"}
    /\ evaluations < MaxRemoteEvals
    /\ Invoke(1, d)
    /\ UNCHANGED <<startTime, adapterCalls>>

InitDefaults == InitEngine({defaultPolicySupplies}) /\ InitRequests /\ InitAudit

NextDefaults ==
    \/ \E d \in RemoteDemands : RemoteEvaluate(d)
    \/ StoreDemandOk(1)
    \/ StoreDemandFail(1)
    \/ Tick

SpecDefaults == InitDefaults /\ [][NextDefaults]_vars

(***************************************************************************)
(* SpecCounters: an engine that starts with a rate-limit rule is asked     *)
(* repeatedly as time passes, while the rule is replaced, removed and      *)
(* reloaded, each of these calls awaited before the next is made.          *)
(***************************************************************************)
LimitRules == {s \in SupplyPool : s.action = "rate-limit"}

LimitRuleMaps == {<<s>> : s \in LimitRules}

\* createSupply, removeSupply or a reload called by a caller that awaits it
MutateInTurn(A) == pendingOps = <<>> /\ A

\* a request the limit rule matches and one it does not
CounterDemands ==
    { Demand("peer", "remote", "mcp-remote", "topic-42", "chat", "getMessages"),
      Demand("alice", "user", "ipc", Undefined, "chat", "sendMessage") }

InitCounters == InitEngine(LimitRuleMaps) /\ InitRequests /\ InitAudit

NextCounters ==
    \/ \E d \in CounterDemands : EvaluateCall(d)
    \/ StoreDemandOk(1)
    \/ Tick
    \/ \E supply \in LimitRules : MutateInTurn(CreateSupplyCall(supply))
    \/ \E i \in 1..MaxPending : CreateSupplyDone(i)
    \/ \E supply \in LimitRules : MutateInTurn(RemoveSupplyCall(supply.id))
    \/ \E i \in 1..MaxPending : RemoveSupplyDone(i)
    \/ MutateInTurn(ReloadCall)
    \/ \E i \in 1..MaxPending : ReloadDone(i)
    \/ \E i \in 1..MaxPending : ReloadFail(i)

SpecCounters == InitCounters /\ [][NextCounters]_vars

(***************************************************************************)
(* SpecLimits: an engine holding one rate-limit rule, keyed by any of the  *)
(* key dimensions, is asked as time passes by requests that differ in      *)
(* caller, topic, method and plan.                                         *)
(***************************************************************************)
KeyDimensions == {"caller", "topic", "method", "plan"}

LimitPool ==
    { Supply("b", "limit-by-" \o keyBy, 900, <<>>, <<>>, <<>>, <<>>, <<>>,
             "rate-limit", RateLimit(1, 2, keyBy)) : keyBy \in KeyDimensions }

LimitDemands ==
    { Demand("peer", "remote", "mcp-remote", "topic-42", "chat", "getMessages"),
      Demand("mallory", "remote", "mcp-remote", "topic-42", "chat", "getMessages"),
      Demand("peer", "remote", "mcp-remote", Undefined, "chat", "getMessages"),
      Demand("peer", "remote", "mcp-remote", "topic-42", "chat", "sendMessage"),
      Demand("peer", "remote", "mcp-remote", "topic-42", "contacts", "getMessages") }

InitLimits ==
    InitEngine({<<s>> : s \in LimitPool}) /\ InitRequests /\ InitAudit

NextLimits ==
    \/ \E d \in LimitDemands : EvaluateCall(d)
    \/ StoreDemandOk(1)
    \/ Tick

SpecLimits == InitLimits /\ [][NextLimits]_vars

(***************************************************************************)
(* Properties of PlanRouter.call (checked under SpecRouter).               *)
(***************************************************************************)
\* evaluate has returned to request r's call
Returned(r) == pc[r] \in {"evaluated", "rejected", "executing", "returned"}

\* C1: a request whose evaluation returned allowed = false never reaches the
\* registry (callPlanMethod is not invoked for it, before or after the
\* rejection), and once the call has settled it has rejected with a
\* PolicyDeniedError whose decision is exactly the one evaluate returned.
C1_DeniedNeverExecutes ==
    \A r \in RequestIds :
        (Returned(r) /\ ~evaluated[r].allowed)
           => /\ executions[r] = 0
              /\ pc[r] \in {"evaluated", "rejected"}
              /\ pc[r] = "rejected"
                    => /\ outcome[r].kind = "PolicyDeniedError"
                       /\ outcome[r].decision = evaluated[r]
                       /\ outcome[r].decision = decision[r]

\* a request denied by a matching deny rule has been rejected
C1_Witness ==
    \E r \in RequestIds :
        /\ pc[r] = "rejected"
        /\ ~evaluated[r].allowed
        /\ evaluated[r].matchedRules # <<>>
        /\ outcome[r].kind = "PolicyDeniedError"

\* the audit entries of request r, wherever they are: in the buffer, in a
\* batch being flushed, in storage
EntriesOf(r) ==
    {e \in Range(buffer) \cup Range(auditStorage)
              \cup UNION {Range(flushing[b]) : b \in 1..Len(flushing)} :
        e.id = r}

\* callPlanMethod has been called for request r
Executing(r) == executions[r] > 0

\* C8 as stated: when callPlanMethod begins for a request, its evaluation
\* has completed and its demand record has been appended to storage.
C8_RecordAppendedFirst ==
    \A r \in RequestIds :
        Executing(r) => /\ evaluated[r] = decision[r]
                        /\ stored[r] = "stored"

\* C8, amended: when callPlanMethod begins for a request, under every
\* interleaving with other calls, its evaluation has completed with the
\* decision it returned, its one demand record has been handed to
\* storeDemand and that call has settled (the record is stored unless
\* storeDemand failed), and if the decision requests audit its audit entry
\* has been appended to the audit log.
C8_EvaluatedAndLoggedFirst ==
    \A r \in RequestIds :
        Executing(r) => /\ pc[r] \in {"executing", "returned"}
                        /\ executions[r] = 1
                        /\ evaluated[r] = decision[r]
                        /\ evaluated[r].allowed
                        /\ Len(handed[r]) = 1
                        /\ handed[r][1].id = r
                        /\ stored[r] \in {"stored", "failed"}
                        /\ evaluated[r].audit => EntriesOf(r) # {}

\* callPlanMethod runs for an audited request whose demand record
\* storeDemand failed to store, while another call is still being evaluated
C8_Witness ==
    \E r, q \in RequestIds :
        /\ pc[r] = "executing"
        /\ stored[r] = "failed"
        /\ evaluated[r].audit
        /\ EntriesOf(r) # {}
        /\ pc[q] = "logDemand"

\* C9: a call for an allowed request resolves, with {success: false, error:
\* the message} when the registry raised an error (unknown plan and unknown
\* method included) and with success otherwise; a call rejects only with
\* PolicyDeniedError, and only for a denied request.
C9_ExecutionErrorsBecomeResults ==
    \A r \in RequestIds :
        /\ pc[r] = "returned" =>
              /\ evaluated[r].allowed
              /\ outcome[r].kind = "result"
              /\ outcome[r].success = (raised[r] = Undefined)
              /\ outcome[r].error = raised[r]
              /\ callPlanMethodError(demand[r].plan, demand[r].method) # "" =>
                    raised[r] = callPlanMethodError(demand[r].plan, demand[r].method)
        /\ pc[r] = "rejected" =>
              /\ ~evaluated[r].allowed
              /\ outcome[r].kind = "PolicyDeniedError"
              /\ raised[r] = Undefined
        /\ raised[r] # Undefined => pc[r] = "returned"

\* an allowed call for a plan the registry does not know has returned the
\* failure result
C9_Witness ==
    \E r \in RequestIds :
        /\ pc[r] = "returned"
        /\ demand[r].plan \notin RegisteredPlans
        /\ raised[r] = "Plan not found: " \o demand[r].plan
        /\ outcome[r].success = FALSE
        /\ outcome[r].error = raised[r]

\* C10: once a call whose decision requests audit has returned, the
\* request's audit entry, in the buffer or on its way to or in storage,
\* carries the outcome: success or failure, and the duration.
C10_OutcomeOnAuditEntry ==
    \A r \in RequestIds :
        (pc[r] = "returned" /\ evaluated[r].audit)
           => /\ EntriesOf(r) # {}
              /\ \A e \in EntriesOf(r) :
                    /\ e.hasResult
                    /\ e.success = outcome[r].success

(***************************************************************************)
(* Properties of PolicyEngine.evaluate (checked under SpecPolicy, where    *)
(* the rule set stays as loaded and request 1 is the latest evaluation).   *)
(***************************************************************************)
\* the latest evaluation's loop has run
Decided == pc[1] \in {"logDemand", "evaluated"}

\* the positions of sortedSupplies whose rule matches the latest request
Matching ==
    {i \in 1..Len(sortedSupplies) :
        matchesSupply(demand[1], demand[1].plan, demand[1].method, sortedSupplies[i])}

\* the latest evaluation checked the rate limit of rule i and it passed
Passed(i) ==
    \E k \in 1..Len(rlLog) :
        /\ rlLog[k].evaluation = evaluations
        /\ rlLog[k].rule = sortedSupplies[i].id
        /\ ~rlLog[k].limited

Last(seq) == seq[Len(seq)]

\* C2: when no rule of the rule set matches the request (the empty rule set
\* included), the decision is allowed = false with reason "No matching
\* supply" and no matched rule, and that is what evaluate returns.
C2_DefaultDeny ==
    (Decided /\ Matching = {})
       => /\ decision[1].allowed = FALSE
          /\ decision[1].reason = "No matching supply"
          /\ decision[1].matchedRules = <<>>
          /\ pc[1] = "evaluated" => evaluated[1] = decision[1]

\* a request was evaluated against a non-empty rule set none of whose rules
\* matches it
C2_Witness ==
    /\ pc[1] = "evaluated"
    /\ sortedSupplies # <<>>
    /\ Matching = {}
    /\ evaluated[1].reason = "No matching supply"

\* C3: the decision is that of the first rule, in descending priority, that
\* matches the request and is not a rate-limit rule whose check passed:
\* allow and allow-with-audit grant (the latter with audit), deny denies with
\* the rule's name, an exceeded rate-limit denies; when the only matching
\* rules are rate-limit rules that passed, the request is denied for want of
\* a matching supply.  A passing rate-limit rule grants nothing.
C3_FirstNonPassingDecides ==
    Decided =>
        LET dec == decision[1]
            NonPassing == {i \in Matching : ~Passed(i)}
        IN IF NonPassing = {}
           THEN /\ dec.allowed = FALSE
                /\ dec.reason = "No matching supply"
                /\ dec.rateLimit.limited = FALSE
           ELSE LET f == CHOOSE i \in NonPassing : \A j \in NonPassing : i <= j
                    s == sortedSupplies[f]
                IN /\ \A j \in Matching :
                         sortedSupplies[j].priority > s.priority => Passed(j)
                   /\ Last(dec.matchedRules) = s.id
                   /\ dec.allowed = (s.action \in {"allow", "allow-with-audit"})
                   /\ dec.audit = (s.action = "allow-with-audit")
                   /\ s.action = "deny" => dec.reason = "Denied by supply: " \o s.name
                   /\ dec.rateLimit.limited = (s.action = "rate-limit")

\* a rate-limit rule passed and the lower-priority allow rule behind it
\* granted the request
C3_Witness ==
    /\ Decided
    /\ decision[1].allowed
    /\ \E i, j \in Matching :
          /\ i < j
          /\ Passed(i)
          /\ sortedSupplies[i].priority > sortedSupplies[j].priority
          /\ Last(decision[1].matchedRules) = sortedSupplies[j].id

\* the check before check k under the same counter key, 0 if there is none
PrevCheck(k) ==
    LET same == {j \in 1..(k - 1) : rlLog[j].key = rlLog[k].key}
    IN IF same = {} THEN 0 ELSE CHOOSE j \in same : \A m \in same : m <= j

\* Fixed windows: a check opens a window of windowMs when its key has none
\* or the last one has run out; WindowPos counts the checks of a window.
RECURSIVE WindowEnd(_)
WindowEnd(k) ==
    IF PrevCheck(k) = 0 \/ rlLog[k].time >= WindowEnd(PrevCheck(k))
    THEN rlLog[k].time + rlLog[k].windowMs
    ELSE WindowEnd(PrevCheck(k))

RECURSIVE WindowPos(_)
WindowPos(k) ==
    IF PrevCheck(k) = 0 \/ rlLog[k].time >= WindowEnd(PrevCheck(k))
    THEN 1
    ELSE WindowPos(PrevCheck(k)) + 1

\* C5: for a rate-limit rule with cap N and one key, the first N matching
\* requests of a window pass the rule, which then decides nothing (the
\* evaluation goes on to the rules behind it); every later matching request
\* of the window is denied by that rule with retryAfter > 0, whatever allow
\* rule lies behind it.
C5_CapPerWindow ==
    \A k \in 1..Len(rlLog) :
        LET check == rlLog[k] IN
        IF WindowPos(k) <= check.maxRequests
        THEN /\ ~check.limited
             /\ check.decidedBy # check.rule
        ELSE /\ check.limited
             /\ check.retryAfter > 0
             /\ ~check.allowed
             /\ check.decidedBy = check.rule

\* request N + 1 of a window was denied by the rate-limit rule although an
\* allow rule of lower priority matches it
C5_Witness ==
    /\ Decided
    /\ rlLog # <<>>
    /\ LET k == Len(rlLog) IN
       /\ rlLog[k].evaluation = evaluations
       /\ WindowPos(k) = rlLog[k].maxRequests + 1
       /\ rlLog[k].limited
       /\ decision[1].rateLimit.retryAfter > 0
       /\ \E i \in Matching :
             /\ sortedSupplies[i].action = "allow"
             /\ sortedSupplies[i].priority < SupplyById(sortedSupplies, rlLog[k].rule).priority

\* C6: a rule with a scope allow-list never matches a request without a
\* scope, and matches a request with a scope only if that scope is in the
\* list: no such rule is among the matched rules of a decision otherwise.
C6_ScopedRuleNeedsScope ==
    Decided =>
        \A i \in 1..Len(sortedSupplies) :
            LET s == sortedSupplies[i] IN
            (Len(s.allowedTopics) > 0
                /\ (i \in Matching \/ Includes(decision[1].matchedRules, s.id)))
               => /\ demand[1].topicId # Undefined
                  /\ demand[1].topicId # ""
                  /\ Includes(s.allowedTopics, demand[1].topicId)

\* a request without a scope ran past a scope-restricted rule that would
\* match it had it the rule's scope, and was denied for want of a match
C6_Witness ==
    /\ Decided
    /\ demand[1].topicId = Undefined
    /\ decision[1].reason = "No matching supply"
    /\ \E i \in 1..Len(sortedSupplies) :
          LET s == sortedSupplies[i]
              scoped == [demand[1] EXCEPT !.topicId = s.allowedTopics[1]]
          IN /\ Len(s.allowedTopics) > 0
             /\ matchesSupply(scoped, scoped.plan, scoped.method, s)
             /\ ~Includes(decision[1].matchedRules, s.id)

\* C7: every evaluation hands exactly one demand record, carrying the
\* request and the decision, to storeDemand, whichever way it ends (allow,
\* deny, rate-limited, no match); evaluate returns the decision the loop
\* reached whether storeDemand resolved or rejected, and a rejection of
\* storeDemand does not leave evaluate.
C7_OneDemandRecord ==
    /\ Decided =>
          /\ Len(handed[1]) = 1
          /\ handed[1][1].id = 1
          /\ handed[1][1].callerId = demand[1].callerId
          /\ handed[1][1].plan = demand[1].plan
          /\ handed[1][1].method = demand[1].method
          /\ handed[1][1].decision = (IF decision[1].allowed THEN "allowed" ELSE "denied")
          /\ handed[1][1].reason = decision[1].reason
    /\ pc[1] = "evaluated" =>
          /\ stored[1] \in {"stored", "failed"}
          /\ evaluated[1] = decision[1]
    /\ stored[1] = "failed" => pc[1] = "evaluated"

\* storeDemand rejected the record of a rate-limited request and evaluate
\* returned the denial
C7_Witness ==
    /\ pc[1] = "evaluated"
    /\ stored[1] = "failed"
    /\ Len(handed[1]) = 1
    /\ evaluated[1].rateLimit.limited
    /\ ~evaluated[1].allowed

(***************************************************************************)
(* Properties of the rule order (checked under SpecRules).  A rule is      *)
(* inserted when its id enters the rule map: by a createSupply of an id    *)
(* the map does not hold, or by a reload, in load order.  A createSupply   *)
(* of an id the map holds replaces the rule where it stands.               *)
(***************************************************************************)
\* sortedSupplies holds the rules of the map, by descending priority, rules
\* of equal priority in insertion order
StableOrder ==
    /\ Len(sortedSupplies) = Len(supplies)
    /\ Range(sortedSupplies) = Range(supplies)
    /\ \A i \in 1..Len(sortedSupplies) : insertedAt[sortedSupplies[i].id] > 0
    /\ \A i, j \in 1..Len(sortedSupplies) :
          i < j => \/ sortedSupplies[i].priority > sortedSupplies[j].priority
                   \/ /\ sortedSupplies[i].priority = sortedSupplies[j].priority
                      /\ insertedAt[sortedSupplies[i].id]
                            < insertedAt[sortedSupplies[j].id]

\* an evaluation step: of two matching rules of equal priority, the earlier
\* inserted being one that decides, the later inserted is not reached
EarlierDecides ==
    evaluations' = evaluations + 1 =>
        \A i, j \in 1..Len(sortedSupplies) :
            LET a == sortedSupplies[i]
                b == sortedSupplies[j]
                d == demand'[1]
            IN (/\ a.priority = b.priority
                /\ insertedAt[a.id] < insertedAt[b.id]
                /\ a.action # "rate-limit"
                /\ matchesSupply(d, d.plan, d.method, a)
                /\ matchesSupply(d, d.plan, d.method, b))
                  => ~Includes(decision'[1].matchedRules, b.id)

\* C4: after any sequence of createSupply, removeSupply and reload, at every
\* suspension point, the evaluation order is descending in priority with
\* rules of equal priority in the order they were inserted; and of two
\* equal-priority rules matching a request, the earlier-inserted one decides.
C4_StablePriorityOrder == []StableOrder /\ [][EarlierDecides]_vars

\* two rules of equal priority match the evaluated request, one of them
\* re-created under its id since both were inserted (three createSupply
\* completions, two insertions), and the earlier inserted one decided
C4_Witness ==
    /\ pc[1] = "evaluated"
    /\ inserts = 3
    /\ pendingOps = <<>>
    /\ \E i, j \in 1..Len(sortedSupplies) :
          /\ i < j
          /\ insertedAt[sortedSupplies[i].id] = 1
          /\ insertedAt[sortedSupplies[j].id] = 2
          /\ sortedSupplies[i].priority = sortedSupplies[j].priority
          /\ sortedSupplies[i].action # "rate-limit"
          /\ {i, j} \subseteq
                {k \in 1..Len(sortedSupplies) :
                    matchesSupply(demand[1], demand[1].plan, demand[1].method,
                                  sortedSupplies[k])}
          /\ Last(evaluated[1].matchedRules) = sortedSupplies[i].id

(***************************************************************************)
(* Properties of the AuditLogger (checked under SpecAudit).                *)
(***************************************************************************)
RECURSIVE Flatten(_)
Flatten(batches) ==
    IF batches = <<>> THEN <<>> ELSE Head(batches) \o Flatten(Tail(batches))

\* the entries held by the flushes in progress
InFlight == Flatten(flushing) \o opBatch["query"] \o opBatch["shutdown"]

IdsOf(entries) == {entries[i].id : i \in 1..Len(entries)}

\* how many copies of entry id there are, over buffer, batches and storage
Copies(id) ==
    LET everywhere == buffer \o InFlight \o auditStorage
    IN Cardinality({i \in 1..Len(everywhere) : everywhere[i].id = id})

\* every logged entry is in exactly one place, and nothing else is anywhere
OneCopy == \A id \in 1..MaxEntries : Copies(id) = (IF id \in LoggedIds THEN 1 ELSE 0)

\* a store attempt that fails (an entry leaves its batch, storage unchanged)
\* puts that entry at the front of the buffer
FailedStoreRequeues ==
    (Len(InFlight') < Len(InFlight) /\ auditStorage' = auditStorage)
       => /\ buffer' # <<>>
          /\ Tail(buffer') = buffer
          /\ Head(buffer') \in Range(InFlight)
          /\ Head(buffer').id \notin IdsOf(InFlight')

\* an append leaves the batches of the flushes in progress as they are; the
\* entry is in the buffer, or in the new batch its own append started
AppendKeepsBatches ==
    logged' = logged + 1
       => /\ opBatch' = opBatch
          /\ \A b \in 1..Len(flushing) : flushing'[b] = flushing[b]
          /\ \/ /\ logged' \in IdsOf(buffer')
                /\ flushing' = flushing
             \/ /\ Len(buffer) + 1 >= BUFFER_SIZE
                /\ buffer' = <<>>
                /\ Len(flushing') = Len(flushing) + 1
                /\ logged' \in IdsOf(flushing'[Len(flushing')])

\* C11: every entry passed to logRequest is at all times in exactly one of
\* the buffer, the batch of a flush in progress, or storage (none is lost,
\* none duplicated); an entry whose store attempt fails returns to the
\* buffer; an entry appended while a flush is in progress is not added to
\* that flush's batch but stays buffered for a later one.
C11_NoEntryLostOrDuplicated ==
    []OneCopy /\ [][FailedStoreRequeues /\ AppendKeepsBatches]_vars

\* the store of the first entry failed and put it back in the buffer, the
\* second entry of the same batch was stored
C11_Witness ==
    /\ storeFailed
    /\ IdsOf(buffer) = {1}
    /\ IdsOf(auditStorage) = {2}
    /\ InFlight = <<>>

\* the entry with the given id, wherever it is
EntryWithId(id) ==
    LET everywhere == buffer \o InFlight \o auditStorage
    IN everywhere[CHOOSE i \in 1..Len(everywhere) : everywhere[i].id = id]

\* C12: query is never stale: provided no storage write failed, every entry
\* logged before query was invoked and matching the filter is among the
\* entries query returns, whatever flushes run alongside.
C12_QueryNeverStale ==
    (opPc["query"] = "done" /\ ~storeFailed)
       => \A id \in loggedAtCall["query"] :
             (queryFilter = Undefined \/ EntryWithId(id).decision = queryFilter)
                => id \in IdsOf(queryResult)

\* C13: when shutdown has returned, every entry logged before it was called
\* is in storage and none of them is in the buffer, and the flush timer is
\* cancelled (stated for runs in which no storage write failed).
C13_ShutdownStoresAll ==
    (opPc["shutdown"] = "done" /\ ~storeFailed)
       => /\ loggedAtCall["shutdown"] \subseteq IdsOf(auditStorage)
          /\ loggedAtCall["shutdown"] \cap IdsOf(buffer) = {}
          /\ ~flushTimer

(***************************************************************************)
(* Credential issuance (MCPSupplyManager.handleDemand).                    *)
(***************************************************************************)
CredentialKeys == Scopes \X Consumers

\* the step is the call of handleDemand invocation h, up to its first await
DemandCalled(h) == hd[h].pc = "idle" /\ hd'[h].pc # "idle"

\* what a handleDemand that returns null leaves alone
IssuanceUnchanged ==
    UNCHANGED <<mcpSupplies, pendingSupplies, issuedCredentials,
                credentialStore, sentCredentials, channel, issuedSince,
                consumerVars>>

\* a handleDemand for a key whose credential was stored since the key's
\* last revocation, the topic having a supply, returns null and changes
\* nothing
RepeatedDemandSkipped ==
    \A h \in DemandIds :
        (/\ DemandCalled(h)
         /\ hasSupply(mcpSupplies, hd'[h].topicId)
         /\ issuedSince[<<hd'[h].topicId, hd'[h].consumer>>] = 1)
        => hd'[h].pc = "null" /\ IssuanceUnchanged

\* C14: credential issuance is idempotent.  When handleDemand is called one
\* call after the other, no key has more than one credential stored and
\* sent since its last revocation, and a call that follows a stored
\* credential of its key returns null and changes nothing.
C14_IssuanceIdempotent ==
    /\ [](\A k \in CredentialKeys : issuedSince[k] <= 1)
    /\ [][RepeatedDemandSkipped]_vars

\* two calls for one key have completed: the first returned its credential,
\* stored and sent once, and the second returned null
C14_Witness ==
    /\ hd[1].pc = "returned"
    /\ hd[2].pc = "null"
    /\ hd[1].topicId = hd[2].topicId
    /\ hd[1].consumer = hd[2].consumer
    /\ hasSupply(mcpSupplies, hd[2].topicId)
    /\ issuedSince[<<hd[1].topicId, hd[1].consumer>>] = 1
    /\ credentialStore[<<hd[1].topicId, hd[1].consumer>>] = 1
    /\ sentCredentials[hd[1].consumer] = 1

\* C15: at most one live credential per (scope, provider, consumer) under
\* concurrency.  However handleDemand calls interleave at their awaits, no
\* key has more than one credential stored and sent since its last
\* revocation.
C15_AtMostOneLiveCredential ==
    \A k \in CredentialKeys : issuedSince[k] <= 1

(***************************************************************************)
(* Demands without a supply (handleDemand, removeSupply).                  *)
(***************************************************************************)
\* a handleDemand called for a topic that has no supply returns null and
\* changes nothing
DemandWithoutSupplyIgnored ==
    \A h \in DemandIds :
        (DemandCalled(h) /\ mcpSupplies[hd'[h].topicId] = NoMCPSupply)
        => /\ hd'[h].pc = "null"
           /\ hd'[h].credential = NoCredential
           /\ IssuanceUnchanged

\* a handleDemand that returned null does nothing later
NullIsFinal ==
    \A h \in DemandIds : hd[h].pc = "null" => hd'[h] = hd[h]

\* removeSupply leaves the topic without a supply, at once
RemovedAtOnce ==
    \A t \in Scopes :
        (mcpSupplies[t] # NoMCPSupply /\ mcpSupplies'[t] # mcpSupplies[t])
        => mcpSupplies'[t] = NoMCPSupply

\* C16: handleDemand for a scope with no active supply is silently ignored.
\* It returns null without an error, stores no credential, sends nothing and
\* leaves the supply map and the issued-set as they were, also when the
\* supply of the scope was removed by removeSupply.
C16_DemandWithoutSupplyIgnored ==
    [][DemandWithoutSupplyIgnored /\ NullIsFinal /\ RemovedAtOnce]_vars

\* a demand for "topic-42" returned null after removeSupply("topic-42"),
\* and nothing was stored or sent
C16_Witness ==
    /\ mcpSupplies["topic-42"] = NoMCPSupply
    /\ managerCalls = 1
    /\ hd[1].pc = "null"
    /\ hd[1].topicId = "topic-42"
    /\ credentialStore[<<"topic-42", hd[1].consumer>>] = 0
    /\ sentCredentials[hd[1].consumer] = 0

(***************************************************************************)
(* Revocation (MCPSupplyManager.revokeCredential, receiveCredential).      *)
(***************************************************************************)
\* the step is revokeCredential(t, c): its revoked credential is sent
RevokeCalled(t, c) ==
    channel'[c] = Append(channel[c], revokedCredential(t, c))

\* the step hands consumer c the credential at position i of its channel
Delivered(c, i) ==
    /\ i \in 1..Len(channel[c])
    /\ channel'[c] = RemoveAt(channel[c], i)
    /\ credentialCache'[c] = addCredential(credentialCache[c], channel[c][i])

\* after revokeCredential the provider holds no valid credential for the
\* key, and holds one again only once a credential of the key is stored
RevokedOnProvider ==
    \A t \in Scopes, c \in Consumers :
        /\ RevokeCalled(t, c) => ~hasValidCredential(issuedCredentials', t, c)
        /\ (/\ ~hasValidCredential(issuedCredentials, t, c)
            /\ hasValidCredential(issuedCredentials', t, c))
           => credentialStore'[<<t, c>>] = credentialStore[<<t, c>>] + 1

\* a consumer whose cached credential of a key is revoked has no access and
\* no tool under it
RevokedOnConsumer ==
    \A c \in Consumers, t \in Scopes, p \in Providers :
        getCredential(credentialCache[c], t, p).revokedAt # 0
        => /\ ~hasCredential(credentialCache[c], t, p)
           /\ \A tool \in ToolNames :
                  ~isToolAllowed(credentialCache[c], t, p, tool)

\* receiving a revoked credential caches it, and access to a key comes back
\* only by receiving a credential of the key that is not revoked
AccessOnlyByCredential ==
    \A c \in Consumers, t \in Scopes :
        /\ \A i \in 1..Len(channel[c]) :
               (/\ Delivered(c, i)
                /\ channel[c][i] = revokedCredential(t, c))
               => getCredential(credentialCache'[c], t, myPersonId).revokedAt # 0
        /\ (/\ ~hasCredential(credentialCache[c], t, myPersonId)
            /\ hasCredential(credentialCache'[c], t, myPersonId))
           => \E i \in 1..Len(channel[c]) :
                  /\ Delivered(c, i)
                  /\ channel[c][i].topicId = t
                  /\ channel[c][i].revokedAt = 0

LiveCached(cache, t, p) ==
    /\ cache[<<t, p>>] # NoCredential
    /\ cache[<<t, p>>].revokedAt = 0

\* the allow-list of the key's cached credential is absent, empty or
\* contains the tool
ListPermits(cache, t, p, tool) ==
    \/ cache[<<t, p>>].allowedTools \in {AbsentTools, <<>>}
    \/ tool \in Range(cache[<<t, p>>].allowedTools)

LookupsCharacterised ==
    \A c \in Consumers, t \in Scopes, p \in Providers :
        /\ hasCredential(credentialCache[c], t, p)
               <=> LiveCached(credentialCache[c], t, p)
        /\ \A tool \in ToolNames :
               isToolAllowed(credentialCache[c], t, p, tool)
                   <=> /\ LiveCached(credentialCache[c], t, p)
                       /\ ListPermits(credentialCache[c], t, p, tool)

\* a hasAccess or isToolAllowed call answers by the cache it finds and
\* leaves the cache as it was
LookupIsPure ==
    lastLookup' # lastLookup
    => /\ credentialCache' = credentialCache
       /\ LET l == lastLookup'
              cache == credentialCache[l.consumer]
          IN IF l.method = "hasAccess"
                 THEN l.result = LiveCached(cache, l.topicId, l.provider)
                 ELSE l.result =
                          (/\ LiveCached(cache, l.topicId, l.provider)
                           /\ ListPermits(cache, l.topicId, l.provider,
                                          l.toolName))

\* C18: in every reachable cache state hasAccess is true exactly when a
\* credential of the key is cached and has no revoke timestamp, and
\* isToolAllowed exactly when moreover the credential's allow-list is
\* absent, empty or contains the tool; neither lookup changes the cache.
C18_LookupsArePureAndExact ==
    /\ []LookupsCharacterised
    /\ [][LookupIsPure]_vars

\* isToolAllowed answered false for a tool outside the allow-list of a live
\* credential, while a revoked credential of the other provider is cached
C18_Witness ==
    /\ lastLookup.method = "isToolAllowed"
    /\ lastLookup.toolName = "write"
    /\ lastLookup.result = FALSE
    /\ LiveCached(credentialCache[lastLookup.consumer], lastLookup.topicId,
                  lastLookup.provider)
    /\ \E t \in Scopes, p \in Providers :
           /\ getCredential(credentialCache[lastLookup.consumer], t, p)
                  # NoCredential
           /\ getCredential(credentialCache[lastLookup.consumer], t, p).revokedAt
                  # 0

(***************************************************************************)
(* Remote calls (MCPRemoteClient.callTool, handleResponse).                *)
(***************************************************************************)
\* the step is the call of callTool invocation id, up to its first await
CallStarted(id) == toolCalls[id].pc = "idle" /\ toolCalls'[id].pc # "idle"

\* the client holds no live credential for the call's key, or one whose
\* allow-list leaves the tool out
Unauthorized(params) ==
    LET cache == credentialCache["peer"]
    IN \/ ~LiveCached(cache, params.topicId, params.targetPersonId)
       \/ ~ListPermits(cache, params.topicId, params.targetPersonId,
                       params.toolName)

AccessErrors == {"No MCP access", "Tool not allowed by credential"}

\* an unauthorized callTool rejects in the step of its call, and that step
\* stores nothing, sends nothing and creates no promise, entry or timer
FailsFast ==
    \A id \in CallIds :
        (CallStarted(id) /\ Unauthorized(toolCalls'[id].params))
        => /\ toolCalls'[id].pc = "rejected"
           /\ toolCalls'[id].result \in AccessErrors
           /\ UNCHANGED <<storedToolCalls, sentRequests, pendingRequests,
                          timers, responsePromise>>

\* a call rejected for lack of access has no stored ToolCall, no message,
\* no promise, no pending entry and no timer
NothingLeftBehind ==
    \A id \in CallIds :
        toolCalls[id].result \in AccessErrors
        => /\ toolCalls[id].pc = "rejected"
           /\ id \notin storedToolCalls \cup sentRequests
           /\ id \notin pendingRequests \cup timers
           /\ responsePromise[id] = "none"

\* C19: callTool for a (scope, provider) without a live credential, or for
\* a tool the credential does not allow, rejects before any await: no
\* ToolCall is stored, no message sent, no pending entry or timer created.
C19_UnauthorizedFailsFast ==
    /\ []NothingLeftBehind
    /\ [][FailsFast]_vars

\* one call was rejected for lack of a credential and one for its tool
C19_Witness ==
    /\ toolCalls[1].result = "No MCP access"
    /\ toolCalls[2].result = "Tool not allowed by credential"
    /\ storedToolCalls = {}
    /\ sentRequests = {}

\* a call whose timeout has fired has no pending entry and no timer, its
\* response promise is rejected with the timeout error, and so is the
\* callTool that returned the promise
TimedOut ==
    \A id \in fired :
        /\ id \notin pendingRequests \cup timers
        /\ id \notin fetching
        /\ responsePromise[id] = "MCP request timeout after 30000ms"
        /\ toolCalls[id].pc = "waiting"
           => toolCalls[id].result = "MCP request timeout after 30000ms"

\* a response that finds no pending entry changes nothing
DroppedChangesNothing ==
    warned' # warned
    => UNCHANGED <<toolCalls, responsePromise, pendingRequests, timers,
                   fetching, storedToolCalls, sentRequests, fired>>

\* C20: a callTool whose timeout fires before a matching Response rejects
\* with the timeout error and its pending entry is removed; a Response for
\* the call that arrives afterwards resolves nothing and changes no state.
C20_TimeoutRejectsAndDropsLate ==
    /\ []TimedOut
    /\ [][DroppedChangesNothing]_vars

\* call 1 timed out while awaited, and a response for it was then dropped
C20_Witness ==
    /\ 1 \in fired
    /\ toolCalls[1].pc = "waiting"
    /\ toolCalls[1].result = "MCP request timeout after 30000ms"
    /\ warned = 1

(***************************************************************************)
(* Completion of remote calls (response, timeout, cancelAllRequests).      *)
(***************************************************************************)
\* the client state other than the last warning
ClientUnchanged ==
    UNCHANGED <<toolCalls, responsePromise, pendingRequests, timers,
                storedToolCalls, sentRequests, fetching, fired, settles>>

\* a call's response promise is resolved or rejected at most once; its
\* timer is set exactly while its pending entry exists; and while the entry
\* exists or its response's result is being fetched, nothing has resolved
\* or rejected it
CompletedOnce ==
    \A id \in CallIds :
        /\ settles[id] <= 1
        /\ id \in pendingRequests <=> id \in timers
        /\ id \in pendingRequests \cup fetching => settles[id] = 0
        /\ id \notin pendingRequests \/ id \notin fetching
        /\ settles[id] = 1 <=> responsePromise[id] \notin {"none", "pending"}

\* C21: each remote call is completed exactly once, by whichever of its
\* Response, its timeout or cancelAllRequests comes first; that event
\* removes the pending entry and the timer together, and no later event
\* resolves or rejects the call again.
C21_CompletedExactlyOnce == CompletedOnce

\* one call was answered and one cancelled, each completed once, and a
\* response that came later was dropped
C21_Witness ==
    /\ responsePromise[1] = "resolved"
    /\ responsePromise[2] = "Request cancelled"
    /\ settles[1] = 1
    /\ settles[2] = 1
    /\ warned # 0

\* C22: handleResponse for an identifier without a pending entry is
\* dropped: no call is resolved or rejected, and the pending table and the
\* timers are unchanged.
C22_UnknownResponseDropped ==
    [][\A id \in CallIds :
           (HandleResponse(id) /\ id \notin pendingRequests)
           => warned' = id /\ ClientUnchanged]_vars

\* a second response for an answered call was dropped
C22_Witness ==
    /\ warned = 1
    /\ responsePromise[1] = "resolved"
    /\ settles[1] = 1
    /\ pendingRequests = {2}

\* cancelAllRequests empties the pending table and rejects each call in it
\* with the cancellation error, clearing its timer
CancelRejectsAll ==
    CancelAllRequests
    => /\ pendingRequests' = {}
       /\ \A id \in pendingRequests :
              /\ responsePromise'[id] = "Request cancelled"
              /\ id \notin timers'
              /\ toolCalls[id].pc = "waiting"
                 => toolCalls'[id].result = "Request cancelled"

\* a cancelled call stays cancelled: nothing resolves or rejects it again
CancelledIsFinal ==
    \A id \in CallIds :
        responsePromise[id] = "Request cancelled"
        => /\ responsePromise'[id] = "Request cancelled"
           /\ settles'[id] = settles[id]
           /\ toolCalls[id].pc = "waiting" => toolCalls'[id] = toolCalls[id]

\* C23: cancelAllRequests rejects every call in the pending table at once.
\* When it returns the table is empty and each of those calls is rejected
\* with the cancellation error, and no Response or timer resolves or
\* rejects one of them later.
C23_CancelRejectsAll == [][CancelRejectsAll /\ CancelledIsFinal]_vars

\* two pending calls were cancelled together, and a response for the first
\* came afterwards
C23_Witness ==
    /\ responsePromise[1] = "Request cancelled"
    /\ responsePromise[2] = "Request cancelled"
    /\ toolCalls[1].result = "Request cancelled"
    /\ pendingRequests = {}
    /\ timers = {}
    /\ warned = 1


(***************************************************************************)
(* C24: a failed rule reload leaves the previously loaded rule set in      *)
(* effect.  When deps.loadSupplies rejects during a change-triggered       *)
(* reload, the supplies map, the sorted evaluation order and the           *)
(* rate-limit counters are unchanged, and every demand is decided after    *)
(* the failure exactly as it was decided before it.                        *)
(***************************************************************************)
ReloadRejects ==
    \E i \in 1..Len(pendingOps) :
        /\ pendingOps[i].op = "reload"
        /\ pendingOps' = RemoveAt(pendingOps, i)
        /\ reloadFailed'

DecidesAsBefore ==
    \A d \in DemandPool :
        evaluate(sortedSupplies', rateLimitCounters', now', d).decision
            = evaluate(sortedSupplies, rateLimitCounters, now, d).decision

C24_FailedReloadKeepsRules ==
    [][ReloadRejects =>
          /\ UNCHANGED <<supplies, sortedSupplies, rateLimitCounters>>
          /\ DecidesAsBefore]_vars

C24_Witness ==
    /\ reloadFailed
    /\ supplies # <<>>
    /\ sortedSupplies = SortByPriority(supplies)
    /\ \E d \in DemandPool :
          evaluate(sortedSupplies, rateLimitCounters, now, d).matchedSupplyId # Undefined


(***************************************************************************)
(* Properties of the entry-point adapters (checked under SpecAdapters).    *)
(***************************************************************************)
\* a PlanResult: success, or failure with an error message
IsPlanResult(result) ==
    /\ DOMAIN result = DOMAIN NoOutcome
    /\ result.kind = "result"
    /\ result.success \/ ~Falsy(result.error)

\* an MCPToolResult: content, marked as an error or not
IsToolResult(result) ==
    /\ DOMAIN result = {"isError", "text"}
    /\ result.text # ""

\* C25: a call of IPCAdapter.handle or MCPLocalAdapter.handle never ends in
\* a rejection: once it has settled it has resolved, with a success result or
\* with a result marked failed that carries an error message, whatever the
\* channel or tool name and whatever the policy decided.
C25_AdaptersAlwaysReturnResult ==
    \A r \in RequestIds :
        LET call == adapterCalls[r] IN
        /\ call.adapter \in {"ipc", "mcp-local"} => call.pc # "rejected"
        /\ call.adapter = "ipc" /\ call.pc = "returned" => IsPlanResult(call.result)
        /\ call.adapter = "mcp-local" /\ call.pc = "returned"
               => IsToolResult(call.result)

\* C26: for a request addressed to this provider whose handling has come to
\* its end (unknown tool, denial, execution failure or success), exactly one
\* MCPResponse carrying its toolCall hash was handed to sendMessage; no
\* request gets a second response; a request addressed to another provider
\* gets no response and reaches neither the router nor a plan method.
C26_OneResponsePerRequest ==
    \A r \in RequestIds :
        LET call == adapterCalls[r] IN
        call.adapter = "mcp-remote"
        => /\ call.sent <= 1
           /\ call.sent = 1 => call.result.toolCallHash = r
           /\ call.input.targetPersonId = myPersonId
                  /\ call.pc \in {"returned", "rejected"}
                  => call.sent = 1
           /\ call.input.targetPersonId # myPersonId
                  => call.sent = 0 /\ pc[r] = "idle" /\ executions[r] = 0

\* a plan method ran for request r
MethodExecuted(r) ==
    /\ executions[r] > 0
    /\ callPlanMethodError(demand[r].plan, demand[r].method) = ""

\* C30: with defaultPolicySupplies loaded, a plan method runs for a remote
\* request only if the provider holds a valid credential of the sender for
\* the topic, and a request of a sender without one, once answered, was
\* answered with a failure.
C30_RemoteExecutionNeedsCredential ==
    supplies = defaultPolicySupplies
    => \A r \in RequestIds :
           LET call == adapterCalls[r] IN
           call.adapter = "mcp-remote"
               /\ ~hasValidCredential(issuedCredentials, call.input.topicId,
                                      call.input.senderPersonId)
           => /\ ~MethodExecuted(r)
              /\ call.sent = 1 => ~call.result.success


(***************************************************************************)
(* Properties of MCPSupplyManager.handleDemand after a failed delivery     *)
(* (checked under SpecIssue).                                              *)
(***************************************************************************)
\* the step is the rejection of sendCredential in handleDemand invocation h
SendFailed(h) == hd[h].pc = "sending" /\ hd'[h].pc = "rejected"

\* the step is the call of handleDemand invocation h, for the key of the
\* invocation before it, which was rejected
RepeatedAfterRejection(h) ==
    /\ h > 1
    /\ hd[h].pc = "idle" /\ hd'[h].pc # "idle"
    /\ hd[h - 1].pc = "rejected"
    /\ hd'[h].topicId = hd[h - 1].topicId
    /\ hd'[h].consumer = hd[h - 1].consumer
    /\ mcpSupplies[hd'[h].topicId] # NoMCPSupply

\* C27: a consumer is tracked as issued only when its credential was
\* delivered.  When sendCredential rejects, the consumer is not in the
\* topic's issued-set afterwards, and the next Demand of that consumer for
\* the topic issues a credential (storeVersionedObject is called) instead of
\* returning null.
C27_IssuedOnlyWhenDelivered ==
    [][\A h \in DemandIds :
          /\ SendFailed(h) => hd[h].consumer \notin issuedCredentials'[hd[h].topicId]
          /\ RepeatedAfterRejection(h) => hd'[h].pc = "storing"]_vars


(***************************************************************************)
(* Properties of MCPRemoteHandler.handleRequest (checked under             *)
(* SpecHandler).                                                           *)
(***************************************************************************)
\* the step is a call of toolExecutor.execute for request q
ExecutionBegins(q) == handlerCalls'[q].executed > handlerCalls[q].executed

\* the step is the arrival of request q, addressed to this provider, in a
\* scope that has no supply
ArrivesWithoutSupply(q) ==
    /\ handlerCalls[q].pc = "idle" /\ handlerCalls'[q].pc # "idle"
    /\ handlerCalls'[q].request.targetPersonId = myPersonId
    /\ mcpSupplies[handlerCalls'[q].request.topicId] = NoMCPSupply

\* C28: the provider runs no tool in a scope without a supply, in particular
\* after removeSupply: execute is called only while the request's scope has
\* a supply, and a request that arrives in a scope without one is answered
\* with an error response, whoever sent it.
C28_NoExecutionAfterRemoveSupply ==
    [][\A q \in HandlerIds :
          /\ ExecutionBegins(q)
                 => mcpSupplies[handlerCalls[q].request.topicId] # NoMCPSupply
          /\ ArrivesWithoutSupply(q)
                 => /\ handlerCalls'[q].pc = "storing"
                    /\ ~handlerCalls'[q].result.success]_vars

\* the consumer's cache holds, unrevoked, the credential issued from the
\* supply the provider has for the topic
HoldsCredentialOf(c, t) ==
    LET supply == mcpSupplies[t]
        credential == credentialCache[c][<<t, myPersonId>>]
    IN /\ supply # NoMCPSupply
       /\ credential # NoCredential
       /\ credential.revokedAt = 0
       /\ credential.allowedTools = supply.allowedTools

\* C29: provider and consumer agree on tool permission.  Whatever
\* allow-list a supply carries (none, an empty one, a list of tools), the
\* handler lets a tool pass under the supply exactly when isToolAllowed
\* permits it under the credential issued from that supply.
C29_ProviderAndConsumerAgree ==
    \A t \in Scopes, c \in Consumers, tool \in ToolNames :
        HoldsCredentialOf(c, t)
        => (~toolRefused(mcpSupplies[t], tool)
               <=> isToolAllowed(credentialCache[c], t, myPersonId, tool))


(***************************************************************************)
(* Properties of the default supplies (checked under SpecDefaults).        *)
(***************************************************************************)
remoteRateLimit == SupplyById(defaultPolicySupplies, "supply:mcp-remote:rate-limit").rateLimit

\* C31: with defaultPolicySupplies loaded, calls entering through
\* mcp-remote are rate-limited per caller: within one window of the default
\* rate-limit supply, every call of the same caller beyond the cap-th (the
\* 101st and later ones) is denied as rate limited.  All evaluations of
\* SpecDefaults are of one remote caller and fall into one window.
C31_RemoteCallsRateLimited ==
    /\ now < remoteRateLimit.windowMs
    /\ pc[1] = "evaluated"
    /\ demand[1].entryPoint = "mcp-remote"
    /\ evaluations > remoteRateLimit.maxRequests
    => /\ ~evaluated[1].allowed
       /\ evaluated[1].rateLimit.limited


(***************************************************************************)
(* C32: whenever no createSupply, removeSupply or reload is in progress,   *)
(* the engine's in-memory rule set equals the rule set held in policy      *)
(* storage, for every interleaving of createSupply, removeSupply and       *)
(* change-triggered reloads at their suspension points.                    *)
(***************************************************************************)
Quiescent == pendingOps = <<>>

C32_RulesEqualStorageWhenIdle ==
    Quiescent => Range(supplies) = policyStorage


(***************************************************************************)
(* C33: a pending-call entry exists only for a call that still awaits its  *)
(* response.  If sendMessage fails inside callTool, the call's pending     *)
(* entry and its timer are gone once callTool has rejected, and the        *)
(* timeout does not reject the call a second time later.                   *)
(***************************************************************************)
SendHasFailed(id) ==
    toolCalls[id].pc = "rejected" /\ toolCalls[id].result = "send failed"

C33_FailedSendLeavesNothingPending ==
    \A id \in CallIds :
        SendHasFailed(id) =>
            /\ id \notin pendingRequests
            /\ id \notin timers
            /\ id \notin fired
            /\ settles[id] = 0


\* C34: the handler never starts executing a tool for a sender who is
\* absent from the issued-set at the moment execution starts, even when
\* revokeCredential for that sender runs while handleRequest is suspended
\* fetching the tool-call object.
C34_NoExecutionAfterRevoke ==
    [][\A q \in HandlerIds :
          ExecutionBegins(q) =>
              hasValidCredential(issuedCredentials',
                                 handlerCalls[q].request.topicId,
                                 handlerCalls[q].request.senderPersonId)]_vars


(***************************************************************************)
(* Agreement of provider and consumer (checked under SpecCredentials).     *)
(***************************************************************************)
\* every credential message the provider sent for the pair has been
\* delivered, and no handleDemand for the pair is under way
AllDelivered(t, c) ==
    /\ \A i \in 1..Len(channel[c]) : channel[c][i].topicId # t
    /\ \A h \in DemandIds :
           hd[h].pc \in {"storing", "sending"}
               => hd[h].topicId # t \/ hd[h].consumer # c

\* C35: once every credential message the provider sent for a (scope,
\* consumer) pair has been delivered to the consumer's receiveCredential,
\* the consumer's hasAccess(scope, provider) equals the provider's
\* hasValidCredential(scope, consumer), for any sequence of handleDemand
\* and revokeCredential calls and any delivery order of the messages.
C35_AccessAgreesOnceDelivered ==
    \A t \in Scopes, c \in Consumers :
        AllDelivered(t, c) =>
            (hasCredential(credentialCache[c], t, myPersonId)
                <=> hasValidCredential(issuedCredentials, t, c))


(***************************************************************************)
(* Properties of the rate-limit counters (checked under SpecCounters and   *)
(* SpecLimits).                                                            *)
(***************************************************************************)
\* the step is the loop of an evaluation
Evaluating == evaluations' = evaluations + 1

\* the checkRateLimit calls the step made
NewChecks == {rlLog'[j] : j \in (Len(rlLog) + 1)..Len(rlLog')}

CounterChanged(k) ==
    k \notin DOMAIN rateLimitCounters \/ rateLimitCounters'[k] # rateLimitCounters[k]

\* a check that finds the window of its key over starts a fresh window in
\* which it is request 1, and passes unless the cap is 0
LazyReset ==
    \A e \in NewChecks :
        (/\ e.key \in DOMAIN rateLimitCounters
         /\ rateLimitCounters[e.key].resetAt <= now)
        => /\ rateLimitCounters'[e.key] = [count |-> 1, resetAt |-> now + e.windowMs]
           /\ e.maxRequests >= 1 => ~e.limited

\* a counter is created or changed only by an evaluation whose request
\* matches the counter's rule, and no counter is ever dropped
ChangedOnlyByMatchingEvaluation ==
    /\ DOMAIN rateLimitCounters \subseteq DOMAIN rateLimitCounters'
    /\ \A k \in DOMAIN rateLimitCounters' :
           CounterChanged(k)
           => /\ Evaluating
              /\ \E e \in NewChecks :
                    /\ e.key = k
                    /\ \E i \in 1..Len(sortedSupplies) :
                          /\ sortedSupplies[i].id = e.rule
                          /\ matchesSupply(demand'[1], demand'[1].plan,
                                           demand'[1].method, sortedSupplies[i])

\* createSupply, removeSupply and reload, at each of their steps
RuleSetStep == <<supplies, sortedSupplies, storageVars>>' # <<supplies, sortedSupplies, storageVars>>

\* C36: a rate-limit counter is reset only lazily.  The first matching
\* evaluation at or after the window's reset time starts a fresh window in
\* which that evaluation counts as request 1 and passes (for a cap of at
\* least 1); no counter changes except during an evaluation that matches
\* its rule; rule creation, removal and reload leave all counters unchanged.
C36_CountersResetLazily ==
    [][/\ LazyReset
       /\ ChangedOnlyByMatchingEvaluation
       /\ RuleSetStep => UNCHANGED rateLimitCounters]_vars

\* a window ran out and the next check of its key, at or after the reset
\* time, passed as request 1 of a fresh window; rules were mutated while
\* the counter existed
C36_Witness ==
    /\ mutations > 0
    /\ \E i, j \in 1..Len(rlLog) :
          /\ j = Len(rlLog)
          /\ i < j
          /\ rlLog[i].key = rlLog[j].key
          /\ rlLog[j].time >= rlLog[i].time + rlLog[i].windowMs
          /\ ~rlLog[j].limited
          /\ rlLog[j].key \in DOMAIN rateLimitCounters
          /\ rateLimitCounters[rlLog[j].key].count = 1
          /\ rateLimitCounters[rlLog[j].key].resetAt = rlLog[j].time + rlLog[j].windowMs


\* the value a check's request has in the key dimension of the check's rule
KeyValue(e) ==
    CASE e.keyBy = "caller" -> e.request.callerId
      [] e.keyBy = "topic"  -> e.request.topicId
      [] e.keyBy = "method" -> <<e.request.plan, e.request.method>>
      [] e.keyBy = "plan"   -> <<e.request.plan>>

SameKey(e, f) == e.rule = f.rule /\ KeyValue(e) = KeyValue(f)

\* the counter a check leaves, counted over the earlier checks of its own
\* key alone, as if no request of another key had ever been evaluated
RECURSIVE OwnCounter(_, _, _)
OwnCounter(log, e, j) ==
    IF j = 0 THEN [count |-> 0, resetAt |-> 0]
    ELSE LET prev == OwnCounter(log, e, j - 1) IN
         IF ~SameKey(log[j], e) THEN prev
         ELSE LET start == IF prev.resetAt <= log[j].time
                           THEN [count |-> 0,
                                 resetAt |-> log[j].time + log[j].windowMs]
                           ELSE prev
              IN [start EXCEPT !.count = @ + 1]

\* C37: rate-limit counters of different keys are independent.  Whether a
\* check is limited, and its remaining count, are determined by the checks
\* of the same rule with the same value in the rule's key dimension
\* (caller, topic, method or plan) alone: they are the same whatever
\* requests with another caller (topic, method, plan) were evaluated before
\* or in between.
C37_KeysIndependent ==
    \A j \in 1..Len(rlLog) :
        LET own == OwnCounter(rlLog, rlLog[j], j) IN
        /\ rlLog[j].limited <=> own.count > rlLog[j].maxRequests
        /\ rlLog[j].remaining =
               IF own.count > rlLog[j].maxRequests THEN 0
               ELSE rlLog[j].maxRequests - own.count

\* one key was checked twice in a window and limited the second time, and a
\* request with another key, checked after that in the same window, passed
\* with the whole cap but this request remaining
C37_Witness ==
    \E i, j, k \in 1..Len(rlLog) :
        /\ i < j /\ j < k
        /\ SameKey(rlLog[i], rlLog[j])
        /\ rlLog[j].limited
        /\ rlLog[k].rule = rlLog[j].rule
        /\ ~SameKey(rlLog[k], rlLog[j])
        /\ rlLog[k].time < rlLog[i].time + rlLog[i].windowMs
        /\ ~rlLog[k].limited
        /\ rlLog[k].remaining = rlLog[k].maxRequests - 1


(***************************************************************************)
(* Liveness of the audit log (checked under SpecAuditLive).                *)
(***************************************************************************)
Stored(id) == \E i \in 1..Len(auditStorage) : auditStorage[i].id = id

\* the periodic timer is armed from init until shutdown is called
TimerArmedUntilShutdown == opPc["shutdown"] = "idle" => flushTimer

\* a logRequest that fills the buffer starts a flush of all of it
FullBufferFlushes ==
    (logged' = logged + 1 /\ Len(buffer) + 1 >= BUFFER_SIZE)
    => /\ buffer' = <<>>
       /\ Len(flushing') = Len(flushing) + 1

\* C38: every audit entry logged between init and shutdown is eventually
\* written to storage without any further logRequest or query call: the
\* flush timer is armed at all times between init and shutdown, a flush is
\* started whenever a logRequest fills the buffer to BUFFER_SIZE, and
\* entries whose store failed are retried by later flushes, given that
\* timers fire and storage writes eventually succeed.
C38_EveryEntryEventuallyStored ==
    /\ []TimerArmedUntilShutdown
    /\ [][FullBufferFlushes]_vars
    /\ \A id \in 1..MaxEntries :
          (id \in LoggedIds /\ opPc["shutdown"] = "idle") ~> Stored(id)

(***************************************************************************)
(* AuditLogger.logResult after the entry has left the buffer (checked      *)
(* under SpecRouter, where the router calls logResult when callPlanMethod  *)
(* settles and the flush timer and a full buffer take entries away).       *)
(***************************************************************************)
\* request r's entry is in the buffer
Buffered(r) == \E i \in 1..Len(buffer) : buffer[i].id = r

\* this step is the router's logResult call for request r, and r's entry is
\* not in the buffer: flushed already, or in the batch of a flush in progress
LogResultMisses(r) ==
    /\ pc[r] = "executing"
    /\ pc'[r] # "executing"
    /\ evaluated[r].audit
    /\ ~Buffered(r)

\* C39: logResult for an identifier whose entry is no longer in the buffer
\* has no effect: the call returns normally (the router goes on to return
\* its result), nothing is written to storage, no entry is added, and the
\* buffer, the batches being flushed and the stored entries stay as they are.
C39_LateLogResultIsNoOp ==
    [][\A r \in RequestIds :
          LogResultMisses(r) =>
              /\ buffer' = buffer
              /\ flushing' = flushing
              /\ auditStorage' = auditStorage
              /\ pc'[r] = "returned"
              /\ outcome'[r].kind = "result"]_vars

\* an audited call has returned while its entry, taken out of the buffer
\* before logResult ran, sits in a flush batch or in storage without an
\* outcome
C39_Witness ==
    \E r \in RequestIds :
        /\ pc[r] = "returned"
        /\ evaluated[r].audit
        /\ ~Buffered(r)
        /\ \E e \in Range(auditStorage)
                      \cup UNION {Range(flushing[b]) : b \in 1..Len(flushing)} :
              e.id = r /\ ~e.hasResult

(***************************************************************************)
(* Termination of MCPRemoteClient.callTool (checked under SpecClientLive). *)
(***************************************************************************)
\* callTool of call id has been invoked
Invoked(id) == toolCalls[id].pc # "idle"

\* the promise callTool returned has resolved or rejected
Settled(id) ==
    \/ toolCalls[id].pc = "rejected"
    \/ toolCalls[id].pc = "waiting" /\ toolCalls[id].result # "pending"

\* C40: every callTool invocation eventually settles, resolving with a
\* result or rejecting, whether or not a response ever arrives and whether
\* the send succeeds or fails, provided timers fire and storage operations
\* complete.
C40_EveryCallSettles ==
    \A id \in CallIds : Invoked(id) ~> Settled(id)

\* a call whose request was sent and for which no response was ever
\* handled has been rejected by its timer
C40_Witness ==
    \E id \in CallIds :
        /\ toolCalls[id].pc = "waiting"
        /\ id \in fired
        /\ toolCalls[id].result = "MCP request timeout after 30000ms"

=============================================================================
